---- MODULE Spec2Model ----
(***************************************************************************)
(* Four parts of the repository, each with its own specification:         *)
(*   Spec       the multi-chip Setter engine of the set command            *)
(*   SpecCodec  the ABI v1 wire structures and their decoding (uapi v1.rs) *)
(*   SpecLine   the line command (cli line.rs)                             *)
(*   SpecParse  the parsers of the set command (cli set.rs)                *)
(* The variables of the parts that a specification does not run stay at    *)
(* their idle values.                                                      *)
(*                                                                         *)
(* Two generations of the engine live in the repository:                   *)
(*   impl = "cli"       src/cli/src/set.rs                                  *)
(*   impl = "gpiodctl"  src/gpiodctl/src/set.rs                             *)
(* They share update, clean, hold, do_set, do_toggle, do_sleep and the     *)
(* toggle loop; they differ in the prologue of toggle, in the interactive  *)
(* get command and in what cmd does in plain mode.                         *)
(*                                                                         *)
(* Values: 0 = Value::Inactive, 1 = Value::Active.                         *)
(* Option<T>: <<>> = None, <<x>> = Some(x).                                *)
(* Durations are natural numbers of milliseconds.                          *)
(* Text is a sequence of pieces: format!("{}", 10) is <<"1", "0">>.        *)
(***************************************************************************)
EXTENDS Integers, Sequences, FiniteSets, TLC

VARIABLES
    impl,       \* which generation of set.rs runs
    opts,       \* Opts: line_values, hold_period, toggle, interactive
    resolved,   \* result of line resolution: id -> [chip_idx, offset]; nchips
    pc,         \* position of cmd: "start", "toggle", "interact" (reading a
                \* command), "handled" (command done), "wait", "released"
    result,     \* return value of cmd: "none" while running, then "ok" or "err"
    lines,      \* Setter.lines: id -> [chip_idx, offset, value, dirty]
    requests,   \* Setter.requests: chip index of each live request, in order
    last_held,  \* Setter.last_held
    count,      \* local variable count of Setter::toggle
    reqlog,     \* history: the line requests issued by Setter::request
    upd,        \* history: the last call of Setter::update
    cmdrec,     \* history: the last interactive command
    tl,         \* history: waits and flips of Setter::toggle
    prev_held,  \* history: the command before the one in cmdrec was a set or
                \* toggle whose update triggered a hold
    prev_slept, \* history: a hold took place, and a sleep command ran after
                \* it and before the command in cmdrec
    wire,       \* uapi: the buffer given to from_buf and the memory it is in
    uapi,       \* uapi: the last call into uapi v1 and what it returned
    lvals,      \* uapi: a LineValues, with the calls made on it
    lopts,      \* line command: Opts
    sys,        \* line command: the chips of the system
    scan,       \* line command: position and results of cmd
    text,       \* parsers: the text given to a parser
    parsed,     \* parsers: what parse_line_value returned
    cw          \* parsers: a CommandWords over the text, the words it
                \* returned and how often it returned None

setter_vars == <<impl, opts, resolved, pc, result, lines, requests, last_held,
                 count, reqlog, upd, cmdrec, tl, prev_held, prev_slept>>
codec_vars == <<wire, uapi, lvals>>
line_vars == <<lopts, sys, scan>>
parse_vars == <<text, parsed, cw>>

vars == <<setter_vars, codec_vars, line_vars, parse_vars>>

----------------------------------------------------------------------------
(* Bounds of the model *)

\* at most this many chips hold requested lines
MaxChips == 2
\* at most this many arguments in one interactive command
MaxArgs == 2
\* at most this many periods in a toggle sequence
MaxSeqLen == 2
\* the toggle loop is followed for this many waits
MaxIter == 4

\* line ids that can be given on the command line, in command line order
LineNames == <<"a", "b", "c">>
\* an id that is never among the requested lines
NotRequested == "x"
\* periods of toggle sequences, hold periods and sleep durations (ms)
Periods == {0, 10, 20}
HoldPeriods == {<<>>, <<10>>, <<50>>}
\* durations given to the interactive sleep command (ms)
SleepDurations == Periods \cup {50, 80}

----------------------------------------------------------------------------
(* Helpers *)

Max(a, b) == IF a >= b THEN a ELSE b

\* Value::not
not(v) == 1 - v

SeqsUpTo(S, n) == UNION {[1..k -> S] : k \in 0..n}

NoUpd == [called |-> FALSE, pre |-> <<>>, post |-> <<>>, ops |-> <<>>,
          res |-> "none", updated |-> FALSE]

NoCmd == [kind |-> "none", named |-> <<>>, err |-> "none", pre |-> <<>>,
          marked |-> <<>>, out |-> <<>>, slept |-> 0, d |-> 0]

NoToggle == [iter |-> 0, flips |-> 0, idx |-> 0, slept |-> 0, waits |-> <<>>]

\* idle values of the uapi variables
NoWire == [len |-> 0, timestamp_ns |-> 0, kind |-> 0, info |-> <<>>]
NoCall == [op |-> "none", ok |-> FALSE, event |-> <<>>, err |-> <<>>,
           nr |-> 0, size |-> 0]
CodecIdle == wire = NoWire /\ uapi = NoCall /\ lvals = <<>>

\* idle values of the line command variables
NoScan == [pc |-> "none", chips |-> <<>>, idx |-> 0, counts |-> <<>>,
           printed |-> <<>>, scanned |-> <<>>, skipped |-> <<>>,
           success |-> TRUE, result |-> "none"]
LineIdle == lopts = <<>> /\ sys = <<>> /\ scan = NoScan

\* idle values of the parser variables
NoParse == [called |-> FALSE, ok |-> FALSE, name |-> <<>>, value |-> 0,
            err |-> <<>>]
ParseIdle == text = <<>> /\ parsed = NoParse /\ cw = <<>>

----------------------------------------------------------------------------
(* Setter: the pure parts of its methods *)

\* Setter::hold: block for the hold period, if there is one
hold(lh) ==
    IF opts.hold_period # <<>>
    THEN [last_held |-> TRUE, slept |-> opts.hold_period[1]]
    ELSE [last_held |-> lh, slept |-> 0]

\* a clean that leaves the dirty flags as they are
clean_none(ls) == ls

\* Setter::clean
clean(ls) == [id \in DOMAIN ls |-> [ls[id] EXCEPT !.dirty = FALSE]]

\* Setter::toggle_all_lines
toggle_all_lines(ls) ==
    [id \in DOMAIN ls |-> [ls[id] EXCEPT !.value = not(ls[id].value),
                                         !.dirty = TRUE]]

\* update picking every dirty line, whatever its chip
dirty_on_any_chip(ls, idx) ==
    {id \in DOMAIN ls : ls[id].dirty}

\* the lines update picks for chip idx: `line.dirty && line.chip_idx == idx`
dirty_on(ls, idx) ==
    {id \in DOMAIN ls : ls[id].dirty /\ ls[id].chip_idx = idx}

\* the Values built for the lines ids: values.set(line.offset, line.value)
values_of(ls, ids) ==
    [o \in {ls[id].offset : id \in ids} |->
        ls[CHOOSE id \in ids : ls[id].offset = o].value]

\* update writing to every chip, also with no values
has_values_always(values) == TRUE

\* `!values.is_empty()`: update writes to a chip only when it has values
has_values(values) == DOMAIN values # {}

\* update leaving the lines it writes dirty
mark_clean_none(ls, ids) == ls

\* `line.dirty = false` for the lines put into the Values
mark_clean(ls, ids) ==
    [id \in DOMAIN ls |->
        IF id \in ids THEN [ls[id] EXCEPT !.dirty = FALSE] ELSE ls[id]]

\* The loop of Setter::update from chip idx on.  failAt is the chip whose
\* set_values fails (-1: none fails).  ops collects the set-values
\* operations issued, with their outcome.
RECURSIVE update_from(_, _, _, _)
update_from(idx, ls, ops, failAt) ==
    IF idx >= resolved.nchips
    THEN [lines |-> ls, ops |-> ops, res |-> "ok"]
    ELSE LET ids    == dirty_on(ls, idx)
             values == values_of(ls, ids)
             ls2    == mark_clean(ls, ids)
             op     == [chip |-> idx, values |-> values, ok |-> failAt # idx]
         IN  IF ~has_values(values)
             THEN update_from(idx + 1, ls2, ops, failAt)
             ELSE IF failAt = idx
                  THEN [lines |-> ls2, ops |-> Append(ops, op), res |-> "err"]
                  ELSE update_from(idx + 1, ls2, Append(ops, op), failAt)

\* Setter::update: the record of one call
update(ls, failAt) ==
    LET r == update_from(0, ls, <<>>, failAt)
    IN  [called |-> TRUE, pre |-> ls, post |-> r.lines, ops |-> r.ops,
         res |-> r.res,
         updated |-> r.res = "ok" /\ r.ops # <<>>]

\* the marking loop of Setter::do_set: stops at the first id that is not a
\* requested line
RECURSIVE set_changes(_, _, _)
set_changes(ls, changes, i) ==
    IF i > Len(changes)
    THEN [lines |-> ls, err |-> FALSE]
    ELSE LET id == changes[i][1]
             v  == changes[i][2]
         IN  IF id \in DOMAIN ls
             THEN set_changes([ls EXCEPT ![id].value = v, ![id].dirty = TRUE],
                              changes, i + 1)
             ELSE [lines |-> ls, err |-> TRUE]

\* the marking loop of Setter::do_toggle
RECURSIVE toggle_ids(_, _, _)
toggle_ids(ls, ids, i) ==
    IF i > Len(ids)
    THEN [lines |-> ls, err |-> FALSE]
    ELSE LET id == ids[i]
         IN  IF id \in DOMAIN ls
             THEN toggle_ids([ls EXCEPT ![id].value = not(ls[id].value),
                                        ![id].dirty = TRUE], ids, i + 1)
             ELSE [lines |-> ls, err |-> TRUE]

\* a sleep that never takes the hold into account
do_sleep_in_full(lh, d) == [last_held |-> FALSE, slept |-> d]

\* a sleep that takes the hold into account and leaves last_held as it is
do_sleep_keeping_flag(lh, d) ==
    IF lh /\ opts.hold_period # <<>>
    THEN [last_held |-> lh,
          slept |-> IF d < opts.hold_period[1] THEN 0
                                               ELSE d - opts.hold_period[1]]
    ELSE [last_held |-> lh, slept |-> d]

\* Setter::do_sleep: the new last_held and the time blocked
do_sleep(lh, d) ==
    IF lh
    THEN IF opts.hold_period # <<>>
         THEN IF d < opts.hold_period[1]
              THEN [last_held |-> FALSE, slept |-> 0]
              ELSE [last_held |-> FALSE, slept |-> d - opts.hold_period[1]]
         ELSE [last_held |-> FALSE, slept |-> d]
    ELSE [last_held |-> lh, slept |-> d]

\* a toggle with no prologue for a lone zero period
toggle_never_holds_only(ts) == FALSE

\* the prologue of Setter::toggle: a lone zero period only holds
\* (cli: `ts.0.len() == 1 && ts.0[0].is_zero()`; gpiodctl has no prologue)
toggle_holds_only(ts) ==
    impl = "cli" /\ Len(ts) = 1 /\ ts[1] = 0

\* a toggle that never returns at a zero period
toggle_returns_never(ts, cnt) == FALSE

\* a toggle that returns at the last period, zero or not
toggle_returns_at_last(ts, cnt) ==
    cnt = Len(ts) - 1

\* `count == ts.0.len() - 1 && ts.0[count].is_zero()`, count already
\* incremented (ts is indexed from 0 in the source, from 1 here)
toggle_returns(ts, cnt) ==
    cnt = Len(ts) - 1 /\ ts[cnt + 1] = 0

\* a count that is never taken back to the start of the sequence
toggle_wrap_never(ts, cnt) == cnt

\* `if count == ts.0.len() { count = 0; }`
toggle_wrap(ts, cnt) == IF cnt = Len(ts) THEN 0 ELSE cnt

\* a wait of the period alone, whatever the hold period
toggle_period_unheld(ts, cnt) == ts[cnt + 1]

\* `cmp::max(ts.0[count], hold_period)`, hold_period.unwrap_or(ZERO)
toggle_period(ts, cnt) ==
    Max(ts[cnt + 1], IF opts.hold_period = <<>> THEN 0 ELSE opts.hold_period[1])

\* Setter::do_get: the values printed, or an error for an id that is not a
\* requested line; with no ids, all lines in command line order
RECURSIVE get_values(_, _, _, _)
get_values(ls, ids, i, out) ==
    IF i > Len(ids)
    THEN [out |-> out, err |-> FALSE]
    ELSE IF ids[i] \in DOMAIN ls
         THEN get_values(ls, ids, i + 1, Append(out, <<ids[i], ls[ids[i]].value>>))
         ELSE [out |-> <<>>, err |-> TRUE]

\* a get that reports every requested line, whatever lines are named
do_get_every_line(ls, ids) ==
    get_values(ls, [i \in 1..Len(opts.line_values) |-> opts.line_values[i][1]],
               1, <<>>)

do_get(ls, ids) ==
    LET line_ids == [i \in 1..Len(opts.line_values) |-> opts.line_values[i][1]]
        named    == get_values(ls, ids, 1, <<>>)
    IN  IF named.err \/ named.out # <<>>
        THEN named
        ELSE get_values(ls, line_ids, 1, <<>>)

----------------------------------------------------------------------------
(* Initial state: the options of one invocation and the resolved lines *)

\* the chips of the lines, in command line order: every chip in
\* Setter.chips holds a requested line, and the chips are numbered in the
\* order in which the lines name them
ChipMaps(n) ==
    {cm \in [1..n -> 0..(MaxChips - 1)] :
        \A i \in 1..n : cm[i] = 0 \/ \E j \in 1..(i - 1) : cm[j] = cm[i] - 1}

\* offsets are distinct on one chip and may coincide on two chips
offset_on(cm, i) == Cardinality({j \in 1..(i - 1) : cm[j] = cm[i]})

\* `-t 1s,2s,1s,0`, the finite sequence of the help text of --toggle
DocSequence == <<1000, 2000, 1000, 0>>

TimeSequences == (SeqsUpTo(Periods, MaxSeqLen) \ {<<>>}) \cup {DocSequence}

Init ==
    /\ impl \in {"cli", "gpiodctl"}
    /\ \E n \in 1..Len(LineNames) :
        \E cm \in ChipMaps(n), vals \in [1..n -> {0, 1}] :
            /\ resolved =
                 [nchips |-> Cardinality({cm[i] : i \in 1..n}),
                  lines  |-> [id \in {LineNames[i] : i \in 1..n} |->
                                LET i == CHOOSE j \in 1..n : LineNames[j] = id
                                IN  [chip_idx |-> cm[i],
                                     offset   |-> offset_on(cm, i)]]]
            /\ \E hp \in HoldPeriods,
                  tg \in {<<>>} \cup {<<ts>> : ts \in TimeSequences},
                  ia \in BOOLEAN :
                    /\ tg # <<>> => ~ia
                    \* an interactive session overwrites the values it
                    \* starts from: one choice of them is followed
                    /\ ia => vals = [i \in 1..n |-> i % 2]
                    /\ opts = [line_values |-> [i \in 1..n |-> <<LineNames[i], vals[i]>>],
                               hold_period |-> hp,
                               toggle      |-> tg,
                               interactive |-> ia]
    /\ pc = "start"
    /\ result = "none"
    /\ lines = <<>>
    /\ requests = <<>>
    /\ last_held = FALSE
    /\ count = 0
    /\ reqlog = <<>>
    /\ upd = NoUpd
    /\ cmdrec = NoCmd
    /\ tl = NoToggle
    /\ prev_held = FALSE
    /\ prev_slept = FALSE
    /\ CodecIdle
    /\ LineIdle
    /\ ParseIdle

----------------------------------------------------------------------------
(* cmd and Setter::request *)

\* a Config with the lines of every chip
chip_config_any_chip(ls, idx) ==
    values_of(ls, DOMAIN ls)

\* the Config built for chip idx: every line of the chip as an output at
\* its value
chip_config(ls, idx) ==
    values_of(ls, {id \in DOMAIN ls : ls[id].chip_idx = idx})

\* lines filed under the chip after their own
requested_lines_on_next_chip ==
    [id \in DOMAIN resolved.lines |->
        LET i == CHOOSE j \in 1..Len(opts.line_values) : opts.line_values[j][1] = id
        IN  [chip_idx |-> resolved.lines[id].chip_idx + 1,
             offset   |-> resolved.lines[id].offset,
             value    |-> opts.line_values[i][2],
             dirty    |-> FALSE]]

\* Setter.lines as filled by Setter::request
requested_lines ==
    [id \in DOMAIN resolved.lines |->
        LET i == CHOOSE j \in 1..Len(opts.line_values) : opts.line_values[j][1] = id
        IN  [chip_idx |-> resolved.lines[id].chip_idx,
             offset   |-> resolved.lines[id].offset,
             value    |-> opts.line_values[i][2],
             dirty    |-> FALSE]]

\* a request loop that goes on to the remaining chips after a failure
request_log_to_end(ls, failAt) ==
    [i \in 1..resolved.nchips |->
        [chip |-> i - 1, config |-> chip_config(ls, i - 1), ok |-> failAt # i - 1]]

\* the requests issued by the loop of Setter::request when the request on
\* chip failAt fails (-1: none fails)
request_log(ls, failAt) ==
    LET last == IF failAt = -1 THEN resolved.nchips - 1 ELSE failAt
    IN  [i \in 1..(last + 1) |->
            [chip |-> i - 1, config |-> chip_config(ls, i - 1), ok |-> failAt # i - 1]]

\* a return of cmd that leaves the requests open
Released_keeping_requests(res) ==
    /\ pc' = "released"
    /\ result' = res
    /\ UNCHANGED requests

\* dropping the Setter releases every request
Released(res) ==
    /\ pc' = "released"
    /\ result' = res
    /\ requests' = <<>>

\* cmd up to the point where it blocks or returns
cmd ==
    /\ pc = "start"
    /\ \E failAt \in -1..(resolved.nchips - 1) :
        /\ lines' = requested_lines
        /\ reqlog' = request_log(requested_lines, failAt)
        /\ IF failAt # -1
           THEN /\ Released("err")
                /\ UNCHANGED <<last_held, cmdrec>>
           ELSE IF opts.toggle # <<>>
           THEN /\ pc' = "toggle"
                /\ requests' = [i \in 1..resolved.nchips |-> i - 1]
                /\ UNCHANGED <<result, last_held, cmdrec>>
           ELSE LET h == hold(last_held)
                IN  /\ last_held' = h.last_held
                    /\ cmdrec' = [NoCmd EXCEPT !.kind = "cmd", !.slept = h.slept]
                    /\ IF opts.interactive
                       THEN /\ pc' = "interact"
                            /\ requests' = [i \in 1..resolved.nchips |-> i - 1]
                            /\ UNCHANGED result
                       ELSE IF impl = "cli"
                       THEN /\ pc' = "wait"
                            /\ requests' = [i \in 1..resolved.nchips |-> i - 1]
                            /\ UNCHANGED result
                       ELSE Released("ok")
    /\ UNCHANGED <<impl, opts, resolved, count, upd, tl, prev_held, prev_slept>>
    /\ UNCHANGED <<codec_vars, line_vars, parse_vars>>

\* Setter::wait: the edge event read returns and cmd returns Ok
wait ==
    /\ pc = "wait"
    /\ Released("ok")
    /\ UNCHANGED <<impl, opts, resolved, lines, last_held, count, reqlog,
                   upd, cmdrec, tl, prev_held, prev_slept>>
    /\ UNCHANGED <<codec_vars, line_vars, parse_vars>>

----------------------------------------------------------------------------
(* Setter::toggle: one pass of its loop *)

toggle ==
    /\ pc = "toggle"
    /\ tl.iter < MaxIter
    /\ LET ts == opts.toggle[1]
       IN  IF toggle_holds_only(ts)
           THEN LET h == hold(last_held)
                IN  /\ last_held' = h.last_held
                    /\ tl' = [tl EXCEPT !.slept = h.slept]
                    /\ Released("ok")
                    /\ UNCHANGED <<lines, count, upd>>
           ELSE LET d  == toggle_period(ts, count)
                    c1 == count + 1
                IN  IF toggle_returns(ts, c1)
                    THEN /\ tl' = [tl EXCEPT !.iter = @ + 1, !.idx = count,
                                             !.slept = d,
                                             !.waits = Append(@, <<count, d>>)]
                         /\ Released("ok")
                         /\ UNCHANGED <<lines, count, upd, last_held>>
                    ELSE \E failAt \in -1..(resolved.nchips - 1) :
                           LET u == update(toggle_all_lines(lines), failAt)
                           IN  /\ tl' = [iter  |-> tl.iter + 1,
                                         flips |-> tl.flips + 1,
                                         idx   |-> count,
                                         slept |-> d,
                                         waits |-> Append(tl.waits, <<count, d>>)]
                               /\ lines' = u.post
                               /\ upd' = u
                               /\ count' = toggle_wrap(ts, c1)
                               /\ IF u.res = "err"
                                  THEN Released("err")
                                  ELSE UNCHANGED <<pc, result, requests>>
                               /\ UNCHANGED last_held
    /\ UNCHANGED <<impl, opts, resolved, reqlog, cmdrec, prev_held, prev_slept>>
    /\ UNCHANGED <<codec_vars, line_vars, parse_vars>>

----------------------------------------------------------------------------
(* The words of an interactive command: cli set.rs *)

Quote == "\""
Space == " "

\* an unquoted that strips nothing
unquoted_never(s) == s

\* `s.starts_with('"') && s.ends_with('"') && s.len() > 1`
unquoted(s) ==
    IF Len(s) > 1 /\ s[1] = Quote /\ s[Len(s)] = Quote
    THEN SubSeq(s, 2, Len(s) - 1)
    ELSE s

\* CommandWords::new; liter is the place of the next character, from 1
CommandWords_new == [liter |-> 1, inquote |-> FALSE, partial |-> FALSE]


\* the first loop of next: the place of the first character from i on that
\* is not a space; 0 when the line ends first
RECURSIVE skip_spaces(_, _)
skip_spaces(line, i) ==
    IF i > Len(line) THEN 0
    ELSE IF line[i] = Space THEN skip_spaces(line, i + 1)
    ELSE i

\* a second loop that ends the word at any space
RECURSIVE scan_word_any_space(_, _, _)
scan_word_any_space(line, i, q) ==
    IF i > Len(line)
    THEN [end |-> Len(line), liter |-> i, inquote |-> q, hit_end |-> TRUE]
    ELSE IF line[i] = Quote THEN scan_word_any_space(line, i + 1, ~q)
    ELSE IF line[i] = Space
    THEN [end |-> i - 1, liter |-> i + 1, inquote |-> q, hit_end |-> FALSE]
    ELSE scan_word_any_space(line, i + 1, q)

\* the second loop of next, from place i with inquote q: a quote inverts
\* inquote, a space ends the word unless inquote, the end of the line ends
\* the word
RECURSIVE scan_word(_, _, _)
scan_word(line, i, q) ==
    IF i > Len(line)
    THEN [end |-> Len(line), liter |-> i, inquote |-> q, hit_end |-> TRUE]
    ELSE IF line[i] = Quote THEN scan_word(line, i + 1, ~q)
    ELSE IF line[i] = Space /\ ~q
    THEN [end |-> i - 1, liter |-> i + 1, inquote |-> q, hit_end |-> FALSE]
    ELSE scan_word(line, i + 1, q)

\* CommandWords::next: the iterator after the call and what is returned
CommandWords_next(line, w) ==
    LET start == skip_spaces(line, w.liter)
    IN  IF start = 0
        THEN [w |-> [w EXCEPT !.liter = Len(line) + 1], ret |-> <<>>]
        ELSE LET q == IF line[start] = Quote THEN TRUE ELSE w.inquote
                 r == scan_word(line, start + 1, q)
             IN  [w   |-> [liter   |-> r.liter,
                           inquote |-> r.inquote,
                           partial |-> IF r.hit_end THEN TRUE ELSE w.partial],
                  ret |-> <<SubSeq(line, start, r.end)>>]

\* parse_line: the line id a word stands for
parse_line(word) == unquoted(word)

\* the key of Setter.lines a parsed word is: line ids are single pieces,
\* and no requested line has a name of several pieces
line_id(word) ==
    LET s == parse_line(word)
    IN  IF Len(s) = 1 THEN s[1] ELSE NotRequested

\* `while let Some(word) = &words.next() { args.push(*word); }`
RECURSIVE command_args(_, _, _)
command_args(line, w, args) ==
    LET n == CommandWords_next(line, w)
    IN  IF n.ret = <<>>
        THEN [w |-> n.w, args |-> args]
        ELSE command_args(line, n.w, Append(args, n.ret[1]))

\* a parse_command that does not look at inquote
parse_command_unchecked(line) ==
    [args |-> command_args(line, CommandWords_new, <<>>).args, err |-> <<>>]

\* the head of Setter::parse_command: the words of the line, and the
\* error when the last word ends inside a quote
parse_command(line) ==
    LET a == command_args(line, CommandWords_new, <<>>)
    IN  IF a.w.inquote
        THEN [args |-> a.args,
              err  |-> <<"missing closing quote in '">>
                       \o a.args[Len(a.args)] \o <<"'">>]
        ELSE [args |-> a.args, err |-> <<>>]

----------------------------------------------------------------------------
(* Setter::interact: one command of its loop *)

\* the outcomes of the set-values operations of one update: none fails
\* (-1), or the one on a chip that is written to fails
FailChoices(ls) ==
    {-1} \cup {ls[id].chip_idx : id \in {i \in DOMAIN ls : ls[i].dirty}}

\* the ids an operator can type
TypedIds == DOMAIN lines \cup {NotRequested}

\* a loop that returns the error of the command instead of going on
InteractFrame_ending_session ==
    /\ pc' = "released"
    /\ result' = "err"
    /\ requests' = <<>>
    /\ UNCHANGED <<impl, opts, resolved, count, reqlog, tl,
                   prev_held, prev_slept>>
    /\ UNCHANGED <<codec_vars, line_vars, parse_vars>>

\* a command was read and is handled; the session goes on
InteractFrame ==
    /\ pc' = "handled"
    /\ UNCHANGED <<impl, opts, resolved, result, requests, count, reqlog, tl,
                   prev_held, prev_slept>>
    /\ UNCHANGED <<codec_vars, line_vars, parse_vars>>

\* the top of the loop: print the prompt and read the next command
\* (the records of the command before are dropped here)
interact_prompt ==
    /\ pc = "handled"
    /\ pc' = "interact"
    /\ cmdrec' = NoCmd
    /\ upd' = NoUpd
    /\ prev_held' = (/\ cmdrec.kind \in {"set", "toggle"}
                     /\ cmdrec.err = "none"
                     /\ upd.updated
                     /\ opts.hold_period # <<>>)
    \* cmd holds before the loop whenever there is a hold period
    /\ prev_slept' = IF cmdrec.kind = "sleep" THEN opts.hold_period # <<>>
                     ELSE IF /\ cmdrec.kind \in {"set", "toggle"}
                             /\ cmdrec.err = "none"
                             /\ upd.updated
                             /\ opts.hold_period # <<>>
                     THEN FALSE
                     ELSE prev_slept
    /\ UNCHANGED <<impl, opts, resolved, result, lines, requests, last_held,
                   count, reqlog, tl>>
    /\ UNCHANGED <<codec_vars, line_vars, parse_vars>>

\* the error arm of the loop: print the error, then clean
Failed(kind, named, why, marked, ls) ==
    /\ lines' = clean(ls)
    /\ cmdrec' = [kind |-> kind, named |-> named, err |-> why, pre |-> lines,
                  marked |-> marked, out |-> <<>>, slept |-> 0, d |-> 0]
    /\ UNCHANGED last_held

\* `if self.update()? { self.hold(); }` at the end of do_set and do_toggle,
\* with the error arm of the loop when update fails
UpdateAndHold(kind, named, marked, failAt) ==
    LET u == update(marked, failAt)
        h == hold(last_held)
    IN  /\ upd' = u
        /\ IF u.res = "err"
           THEN Failed(kind, named, "set_failed", marked, u.post)
           ELSE /\ lines' = u.post
                /\ last_held' = IF u.updated THEN h.last_held ELSE last_held
                /\ cmdrec' = [kind |-> kind, named |-> named, err |-> "none",
                              pre |-> lines, marked |-> marked, out |-> <<>>,
                              slept |-> IF u.updated THEN h.slept ELSE 0,
                              d |-> 0]

\* exit, end of input or interrupt: the loop returns Ok
interact_exit ==
    /\ pc = "interact"
    /\ Released("ok")
    /\ cmdrec' = [kind |-> "exit", named |-> <<>>, err |-> "none", pre |-> lines,
                  marked |-> lines, out |-> <<>>, slept |-> 0, d |-> 0]
    /\ upd' = NoUpd
    /\ UNCHANGED <<impl, opts, resolved, lines, last_held, count, reqlog, tl,
                   prev_held, prev_slept>>
    /\ UNCHANGED <<codec_vars, line_vars, parse_vars>>

\* reading the command fails: `Err(err) => bail!(err)` (cli),
\* `handle.read_line(&mut buffer)?` (gpiodctl)
interact_read_error ==
    /\ pc = "interact"
    /\ Released("err")
    /\ cmdrec' = [kind |-> "read_error", named |-> <<>>, err |-> "read_failed",
                  pre |-> lines, marked |-> lines, out |-> <<>>, slept |-> 0,
                  d |-> 0]
    /\ upd' = NoUpd
    /\ UNCHANGED <<impl, opts, resolved, lines, last_held, count, reqlog, tl,
                   prev_held, prev_slept>>
    /\ UNCHANGED <<codec_vars, line_vars, parse_vars>>

\* a line that is no command, or a command with malformed arguments
interact_unknown ==
    /\ pc = "interact"
    /\ Failed("unknown", <<>>, "bad_command", lines, lines)
    /\ upd' = NoUpd
    /\ InteractFrame

\* get [line]...  (the gpiodctl loop has no get: it is an unknown command)
interact_get ==
    /\ pc = "interact"
    /\ \E ids \in SeqsUpTo(TypedIds, MaxArgs) :
        LET g == do_get(lines, ids)
        IN  IF impl # "cli"
            THEN Failed("get", ids, "bad_command", lines, lines)
            ELSE IF g.err
            THEN Failed("get", ids, "not_requested", lines, lines)
            ELSE /\ cmdrec' = [kind |-> "get", named |-> ids, err |-> "none",
                               pre |-> lines, marked |-> lines, out |-> g.out,
                               slept |-> 0, d |-> 0]
                 /\ UNCHANGED <<lines, last_held>>
    /\ upd' = NoUpd
    /\ InteractFrame

\* set line=value...
interact_set ==
    /\ pc = "interact"
    /\ \E changes \in SeqsUpTo(TypedIds \X {0, 1}, MaxArgs) :
        LET ids == [i \in 1..Len(changes) |-> changes[i][1]]
            m   == set_changes(lines, changes, 1)
        IN  \E failAt \in FailChoices(m.lines) :
            IF impl = "cli" /\ changes = <<>>
            THEN /\ Failed("set", ids, "bad_command", lines, lines)
                 /\ upd' = NoUpd
            ELSE IF m.err
            THEN /\ Failed("set", ids, "not_requested", m.lines, m.lines)
                 /\ upd' = NoUpd
            ELSE UpdateAndHold("set", ids, m.lines, failAt)
    /\ InteractFrame

\* toggle [line]...
interact_toggle ==
    /\ pc = "interact"
    /\ \E ids \in SeqsUpTo(TypedIds, MaxArgs) :
        LET m == toggle_ids(lines, ids, 1)
        IN  \E failAt \in FailChoices(m.lines) :
            IF m.err
            THEN /\ Failed("toggle", ids, "not_requested", m.lines, m.lines)
                 /\ upd' = NoUpd
            ELSE UpdateAndHold("toggle", ids,
                               IF ids = <<>> THEN toggle_all_lines(m.lines)
                                             ELSE m.lines,
                               failAt)
    /\ InteractFrame

\* the toggle commands typed with a double quote: `toggle "id"`,
\* `toggle "id` and `toggle id "`
QuotedToggles ==
    UNION {{<<"toggle", Space, Quote, id, Quote>>,
            <<"toggle", Space, Quote, id>>,
            <<"toggle", Space, id, Space, Quote>>} : id \in DOMAIN lines}

\* a toggle command typed with quotes (cli): parse_command splits the line
\* into words and rejects an open quote; else the ids go to do_toggle
interact_quoted_toggle ==
    /\ pc = "interact"
    /\ impl = "cli"
    /\ \E line \in QuotedToggles :
        LET r   == parse_command(line)
            ids == [i \in 1..(Len(r.args) - 1) |-> line_id(r.args[i + 1])]
            m   == toggle_ids(lines, ids, 1)
        IN  \E failAt \in FailChoices(m.lines) :
            IF r.err # <<>>
            THEN /\ lines' = clean(lines)
                 /\ cmdrec' = [kind |-> "toggle", named |-> line,
                               err |-> "missing_quote", pre |-> lines,
                               marked |-> lines, out |-> r.err, slept |-> 0,
                               d |-> 0]
                 /\ upd' = NoUpd
                 /\ UNCHANGED last_held
            ELSE IF m.err
            THEN /\ Failed("toggle", line, "not_requested", m.lines, m.lines)
                 /\ upd' = NoUpd
            ELSE UpdateAndHold("toggle", line,
                               IF ids = <<>> THEN toggle_all_lines(m.lines)
                                             ELSE m.lines,
                               failAt)
    /\ InteractFrame

\* sleep <duration>
interact_sleep ==
    /\ pc = "interact"
    /\ \E d \in SleepDurations :
        LET s == do_sleep(last_held, d)
        IN  /\ last_held' = s.last_held
            /\ cmdrec' = [kind |-> "sleep", named |-> <<>>, err |-> "none",
                          pre |-> lines, marked |-> lines, out |-> <<>>,
                          slept |-> s.slept, d |-> d]
    /\ upd' = NoUpd
    /\ UNCHANGED lines
    /\ InteractFrame

----------------------------------------------------------------------------

Next ==
    \/ cmd
    \/ wait
    \/ toggle
    \/ interact_prompt
    \/ interact_exit
    \/ interact_read_error
    \/ interact_unknown
    \/ interact_get
    \/ interact_set
    \/ interact_toggle
    \/ interact_quoted_toggle
    \/ interact_sleep

Spec == Init /\ [][Next]_vars

\* the set command is not running
SetterIdle ==
    /\ impl = "cli"
    /\ opts = <<>>
    /\ resolved = <<>>
    /\ pc = "none"
    /\ result = "none"
    /\ lines = <<>>
    /\ requests = <<>>
    /\ last_held = FALSE
    /\ count = 0
    /\ reqlog = <<>>
    /\ upd = NoUpd
    /\ cmdrec = NoCmd
    /\ tl = NoToggle
    /\ prev_held = FALSE
    /\ prev_slept = FALSE

----------------------------------------------------------------------------
(* uapi v1: the wire structures *)

\* the types of the fields, each with its size and alignment in bytes
u8_array(n) == [size |-> n, align |-> 1]
u32 == [size |-> 4, align |-> 4]
i32 == [size |-> 4, align |-> 4]
u64 == [size |-> 8, align |-> 8]
\* common.rs: Offset is u32, Offsets is [Offset; 64], Name is [u8; 32],
\* Padding<N> is [u32; N], and the two kinds are #[repr(u32)] enums
Offset == u32
Offsets == [size |-> 64 * 4, align |-> 4]
Name == u8_array(32)
Padding(n) == [size |-> n * 4, align |-> 4]
InfoChangeKind == u32
LineEdgeEventKind == u32

align_up(n, a) == ((n + a - 1) \div a) * a

\* the end of the last field when fields i.. are laid out from offset off,
\* each at the next offset that its alignment allows
RECURSIVE end_of(_, _, _)
end_of(fields, i, off) ==
    IF i > Len(fields)
    THEN off
    ELSE end_of(fields, i + 1, align_up(off, fields[i].align) + fields[i].size)

max_align(fields) ==
    CHOOSE a \in {fields[i].align : i \in DOMAIN fields} :
        \A i \in DOMAIN fields : fields[i].align <= a

\* a layout with no padding at all
repr_packed(fields) ==
    [size |-> end_of([i \in DOMAIN fields |-> [fields[i] EXCEPT !.align = 1]], 1, 0),
     align |-> 1]

\* #[repr(C)]: the fields in order, the size rounded up to the alignment
repr_C(fields) ==
    [size  |-> align_up(end_of(fields, 1, 0), max_align(fields)),
     align |-> max_align(fields)]

\* the structures, field by field
LineValues == repr_C(<<u8_array(64)>>)
LineInfo == repr_C(<<Offset, u32, Name, Name>>)
LineInfoChangeEvent == repr_C(<<LineInfo, u64, InfoChangeKind, Padding(5)>>)
HandleRequest == repr_C(<<Offsets, u32, LineValues, Name, u32, i32>>)
HandleConfig == repr_C(<<u32, LineValues, Padding(4)>>)
EventRequest == repr_C(<<Offset, u32, u32, Name, i32>>)
LineEdgeEvent == repr_C(<<u64, LineEdgeEventKind>>)

\* std::mem::size_of
size_of(T) == T.size

\* enum Ioctl and the structure each ioctl passes
Ioctls ==
    {[op |-> "get_line_info",   nr |-> 2,  arg |-> LineInfo],
     [op |-> "get_line_handle", nr |-> 3,  arg |-> HandleRequest],
     [op |-> "get_line_event",  nr |-> 4,  arg |-> EventRequest],
     [op |-> "get_line_values", nr |-> 8,  arg |-> LineValues],
     [op |-> "set_line_values", nr |-> 9,  arg |-> LineValues],
     [op |-> "set_line_config", nr |-> 10, arg |-> HandleConfig],
     [op |-> "watch_line_info", nr |-> 11, arg |-> LineInfo]}

----------------------------------------------------------------------------
(* uapi v1: decoding of events *)

\* the raw kinds tried run from 0 to MaxRawKind, and one of many digits
MaxRawKind == 4
RawKinds == 0..MaxRawKind \cup {2147483647}
Timestamps == {0, 1234}
InfoSamples == {[offset |-> 0, flags |-> 0], [offset |-> 1, flags |-> 3]}

Digits == <<"0", "1", "2", "3", "4", "5", "6", "7", "8", "9">>

\* format!("{}", n) of an unsigned integer
RECURSIVE Decimal(_)
Decimal(n) ==
    IF n < 10 THEN <<Digits[n + 1]>>
              ELSE Append(Decimal(n \div 10), Digits[(n % 10) + 1])

\* common.rs: the variants of the kinds (RisingEdge = 1, FallingEdge = 2;
\* Requested = 1, Released = 2, Reconfigured = 3)
LineEdgeEventKinds == {1, 2}
InfoChangeKinds == {1, 2, 3}

\* common.rs: the validate of a kind read from the kernel
kind_validate(raw, variants) ==
    IF raw \in variants
    THEN [ok |-> TRUE, msg |-> <<>>]
    ELSE [ok |-> FALSE, msg |-> <<"invalid value: ">> \o Decimal(raw)]

\* common.rs: ValidationError::new
ValidationError_new(field, msg) == [field |-> field, msg |-> msg]

\* a validate that accepts every kind
validate_anything(kind, variants) == [ok |-> TRUE, err |-> <<>>]

\* LineEdgeEvent::validate and LineInfoChangeEvent::validate:
\* `self.kind.validate().map_err(|e| ValidationError::new("kind", &e))`
validate(kind, variants) ==
    LET r == kind_validate(kind, variants)
    IN  IF r.ok THEN [ok |-> TRUE, err |-> <<>>]
                ELSE [ok |-> FALSE, err |-> <<ValidationError_new("kind", r.msg)>>]

\* a from_buf that hands out the event without validating it
from_buf_unvalidated(op, T, le, variants) ==
    [op |-> op, ok |-> TRUE, event |-> <<le>>, err |-> <<>>, nr |-> 0,
     size |-> size_of(T)]

\* from_buf: the buffer is read as a T wherever it ends, then validated;
\* `le.validate().map(|_| le)`
from_buf(op, T, le, variants) ==
    LET v == validate(le.kind, variants)
    IN  [op    |-> op,
         ok    |-> v.ok,
         event |-> IF v.ok THEN <<le>> ELSE <<>>,
         err   |-> v.err,
         nr    |-> 0,
         size  |-> size_of(T)]

\* at most this many calls are made on one LineValues
MaxCalls == 2
\* the indexes tried: the first, one inside, the last, and one past the end
Indexes == {0, 2, size_of(LineValues) - 1, size_of(LineValues)}
\* the bytes tried
Bytes == {0, 1, 42}

\* `LineValues([0; 64])`: the array, indexed from 0
LineValues_default == [i \in 0..(size_of(LineValues) - 1) |-> 0]

\* `self.0[idx]`: an index past the end panics
LineValues_get(a, idx) ==
    IF idx \in DOMAIN a THEN [panic |-> FALSE, value |-> a[idx]]
                        ELSE [panic |-> TRUE, value |-> 0]

\* a set that stores 1 for every byte that is not 0
LineValues_set_as_bool(a, idx, value) ==
    IF idx \in DOMAIN a
    THEN [panic |-> FALSE, a |-> [a EXCEPT ![idx] = IF value = 0 THEN 0 ELSE 1]]
    ELSE [panic |-> TRUE, a |-> a]

\* `self.0[idx] = value`
LineValues_set(a, idx, value) ==
    IF idx \in DOMAIN a THEN [panic |-> FALSE, a |-> [a EXCEPT ![idx] = value]]
                        ELSE [panic |-> TRUE, a |-> a]

\* the bits of HandleRequestFlags: INPUT, OUTPUT, ACTIVE_LOW, OPEN_DRAIN,
\* OPEN_SOURCE, BIAS_PULL_UP, BIAS_PULL_DOWN, BIAS_DISABLED
HandleRequestFlags == {1, 2, 4, 8, 16, 32, 64, 128}

\* "several of the flags, such as BIAS_PULL_UP and BIAS_PULL_DOWN are
\* mutually exclusive": the two directions, the two drives, the three biases
mutually_exclusive(flags) ==
    \/ {1, 2} \subseteq flags
    \/ {8, 16} \subseteq flags
    \/ Cardinality(flags \cap {32, 64, 128}) >= 2

\* "The kernel will reject requests with flag combinations that do not
\* make sense"; any other request it grants or refuses
kernel_answers(flags) ==
    IF mutually_exclusive(flags) THEN {FALSE} ELSE BOOLEAN

\* Error::from(IoError::last_os_error())
last_os_error == [field |-> "os", msg |-> <<"errno">>]

\* the buffers handed to from_buf: empty, or as long as one of the events
BufLens == {0, size_of(LineEdgeEvent), size_of(LineInfoChangeEvent)}

InitCodec ==
    /\ SetterIdle
    /\ LineIdle
    /\ ParseIdle
    /\ wire \in [len : BufLens, timestamp_ns : Timestamps, kind : RawKinds,
                 info : InfoSamples]
    /\ uapi = NoCall
    /\ lvals = [a |-> LineValues_default, prev |-> LineValues_default,
                last |-> <<>>, n |-> 0]

\* LineEdgeEvent::from_buf
LineEdgeEvent_from_buf ==
    /\ uapi.op = "none"
    /\ uapi' = from_buf("LineEdgeEvent::from_buf", LineEdgeEvent,
                        [timestamp_ns |-> wire.timestamp_ns, kind |-> wire.kind],
                        LineEdgeEventKinds)
    /\ UNCHANGED <<wire, lvals, setter_vars, line_vars, parse_vars>>

\* LineInfoChangeEvent::from_buf
LineInfoChangeEvent_from_buf ==
    /\ uapi.op = "none"
    /\ uapi' = from_buf("LineInfoChangeEvent::from_buf", LineInfoChangeEvent,
                        [info |-> wire.info, timestamp_ns |-> wire.timestamp_ns,
                         kind |-> wire.kind],
                        InfoChangeKinds)
    /\ UNCHANGED <<wire, lvals, setter_vars, line_vars, parse_vars>>

\* one of the seven ioctls: the request code carries the number of the
\* ioctl and the size of the structure; the kernel answers 0 or an error
ioctl ==
    /\ uapi.op = "none"
    /\ \E c \in Ioctls, ok \in BOOLEAN :
        uapi' = [op |-> c.op, ok |-> ok, event |-> <<>>, err |-> <<>>,
                 nr |-> c.nr, size |-> size_of(c.arg)]
    /\ UNCHANGED <<wire, lvals, setter_vars, line_vars, parse_vars>>

\* get_line_handle: the request goes to the kernel as it is; the kernel's
\* answer is returned
get_line_handle ==
    /\ uapi.op = "none"
    /\ \E flags \in SUBSET HandleRequestFlags :
        \E ok \in kernel_answers(flags) :
            uapi' = [op |-> "get_line_handle", ok |-> ok,
                     event |-> <<[flags |-> flags]>>,
                     err |-> IF ok THEN <<>> ELSE <<last_os_error>>,
                     nr |-> 3, size |-> size_of(HandleRequest)]
    /\ UNCHANGED <<wire, lvals, setter_vars, line_vars, parse_vars>>

\* a call of LineValues::set
LineValues_set_call ==
    /\ lvals # <<>>
    /\ lvals.n < MaxCalls
    /\ uapi.op \in {"none", "LineValues::set", "LineValues::get"}
    /\ \E idx \in Indexes, value \in Bytes :
        LET r == LineValues_set(lvals.a, idx, value)
        IN  /\ uapi' = [op |-> "LineValues::set", ok |-> ~r.panic,
                        event |-> <<[idx |-> idx, value |-> value]>>,
                        err |-> <<>>, nr |-> 0, size |-> size_of(LineValues)]
            /\ lvals' = [a    |-> r.a,
                         prev |-> lvals.a,
                         last |-> IF r.panic THEN lvals.last
                                             ELSE <<[idx |-> idx, value |-> value]>>,
                         n    |-> lvals.n + 1]
    /\ UNCHANGED <<wire, setter_vars, line_vars, parse_vars>>

\* a call of LineValues::get
LineValues_get_call ==
    /\ lvals # <<>>
    /\ lvals.n < MaxCalls
    /\ uapi.op \in {"none", "LineValues::set", "LineValues::get"}
    /\ \E idx \in Indexes :
        LET r == LineValues_get(lvals.a, idx)
        IN  /\ uapi' = [op |-> "LineValues::get", ok |-> ~r.panic,
                        event |-> <<[idx |-> idx, value |-> r.value]>>,
                        err |-> <<>>, nr |-> 0, size |-> size_of(LineValues)]
            /\ lvals' = [lvals EXCEPT !.prev = lvals.a, !.n = @ + 1]
    /\ UNCHANGED <<wire, setter_vars, line_vars, parse_vars>>

NextCodec ==
    \/ LineEdgeEvent_from_buf
    \/ LineInfoChangeEvent_from_buf
    \/ ioctl
    \/ get_line_handle
    \/ LineValues_set_call
    \/ LineValues_get_call

SpecCodec == InitCodec /\ [][NextCodec]_vars

----------------------------------------------------------------------------
(* The line command: cli line.rs *)

\* at most this many chips in the system
MaxSysChips == 2
\* at most this many line identifiers on the command line
MaxIds == 2

\* line names and identifiers; "1" is also how offset 1 is written
NameA == <<"a">>
NameOne == Decimal(1)
\* the lines of a chip, by offset: their names
ChipSamples == {<<NameA>>, <<NameOne>>, <<NameA, NameA>>, <<NameOne, NameA>>}
Ids == {NameA, NameOne}
\* what can go wrong with a chip: it cannot be opened, its chip info cannot
\* be read, or the info of its last line cannot be read
FailModes == {"open", "info", "line_info"}

StartScan == [NoScan EXCEPT !.pc = "start"]

\* the systems tried: up to MaxSysChips chips, numbered from 0 in the order
\* in which they are enumerated, at most one of them failing
InitLine ==
    /\ SetterIdle
    /\ CodecIdle
    /\ ParseIdle
    /\ \E n \in 0..MaxSysChips :
        \E names \in [1..n -> ChipSamples], bad \in 0..n, mode \in FailModes :
            sys = [i \in 1..n |->
                    [names |-> names[i],
                     fail  |-> IF i = bad THEN mode ELSE "none"]]
    /\ lopts \in [lines   : SeqsUpTo(Ids, MaxIds),
                  chip    : {<<>>} \cup {<<k>> : k \in 0..(MaxSysChips - 1)},
                  by_name : BOOLEAN,
                  strict  : BOOLEAN]
    /\ scan = StartScan

\* common::chip_lookup_from_id: the chip of that number, if there is one
chip_lookup_from_id(k) ==
    IF k < Len(sys) THEN [ok |-> TRUE, chips |-> <<k>>]
                    ELSE [ok |-> FALSE, chips |-> <<>>]

\* common::all_chip_paths: every chip of the system, in order
all_chip_paths == [ok |-> TRUE, chips |-> [i \in 1..Len(sys) |-> i - 1]]

\* the offsets whose line info can be read when chip c is scanned
num_read(c) ==
    LET ch == sys[c + 1]
    IN  IF ch.fail = "line_info" THEN Len(ch.names) - 1 ELSE Len(ch.names)

\* a match that takes an offset for an identifier in every scope
line_matches_offset_always(id, name, offset) ==
    id = name \/ id = Decimal(offset)

\* `(id == &li.name) || (!opts.by_name && opts.chip.is_some() && id == &oname)`
line_matches(id, name, offset) ==
    \/ id = name
    \/ (~lopts.by_name /\ lopts.chip # <<>> /\ id = Decimal(offset))

\* the loop over opts.lines for the line at offset of chip c
RECURSIVE match_ids(_, _, _, _)
match_ids(c, offset, i, sc) ==
    IF i > Len(lopts.lines)
    THEN sc
    ELSE IF line_matches(lopts.lines[i], sys[c + 1].names[offset + 1], offset)
         THEN match_ids(c, offset, i + 1,
                        [sc EXCEPT !.counts[i] = @ + 1,
                                   !.printed = Append(@, <<c, offset, i>>)])
         ELSE match_ids(c, offset, i + 1, sc)

\* a loop over the offsets that ends at the first line that matches
RECURSIVE match_lines_until_match(_, _, _, _)
match_lines_until_match(c, offset, n, sc) ==
    IF offset >= n
    THEN sc
    ELSE LET s2 == match_ids(c, offset, 1, sc)
         IN  IF s2.printed # sc.printed
             THEN s2
             ELSE match_lines_until_match(c, offset + 1, n, s2)

\* the loop over the offsets of chip c, up to the first n of them
RECURSIVE match_lines(_, _, _, _)
match_lines(c, offset, n, sc) ==
    IF offset >= n
    THEN sc
    ELSE match_lines(c, offset + 1, n, match_ids(c, offset, 1, sc))

\* print_chip_all_lines prints every line of the chip
RECURSIVE all_lines(_, _, _, _)
all_lines(c, offset, n, sc) ==
    IF offset >= n
    THEN sc
    ELSE all_lines(c, offset + 1, n,
                   [sc EXCEPT !.printed = Append(@, <<c, offset, 0>>)])

\* a result that needs one match or more
count_ok_when_found(n) == n >= 1

\* `*n == 1`
count_ok(n) == n = 1

\* cmd returns an error
Err(sc) == [sc EXCEPT !.pc = "done", !.result = "err"]

\* the end of the loop over the chips: once the last chip is done cmd
\* returns Ok(success)
end_of_chip(sc) ==
    LET s2 == [sc EXCEPT !.idx = @ + 1]
        ok == IF lopts.lines = <<>>
              THEN s2.success
              ELSE \A i \in DOMAIN s2.counts : count_ok(s2.counts[i])
    IN  IF s2.idx > Len(s2.chips)
        THEN [s2 EXCEPT !.pc = "done", !.result = IF ok THEN "true" ELSE "false"]
        ELSE s2

\* a scan that gives up at a chip that cannot be opened, whatever the scope
open_failed_always_fatal(c, sc) == Err(sc)

\* the `Err(e)` arms of print_chip_all_lines and print_chip_matching_lines:
\* an error when a chip is given, else the chip is skipped
open_failed(c, sc) ==
    IF lopts.chip # <<>>
    THEN Err(sc)
    ELSE end_of_chip([sc EXCEPT !.skipped = Append(@, c), !.success = FALSE])

\* cmd up to its loops, for all lines and for strict mode
line_cmd ==
    /\ scan.pc = "start"
    /\ lopts.lines = <<>> \/ lopts.strict
    /\ LET r == IF lopts.chip # <<>> THEN chip_lookup_from_id(lopts.chip[1])
                                    ELSE all_chip_paths
           sc == [scan EXCEPT !.pc = "scan", !.chips = r.chips, !.idx = 0,
                              !.counts = [i \in 1..Len(lopts.lines) |-> 0]]
       IN  scan' = IF r.ok THEN end_of_chip(sc) ELSE Err(scan)
    /\ UNCHANGED <<lopts, sys, setter_vars, codec_vars, parse_vars>>

\* one pass of `for p in chips` with no identifiers: print_chip_all_lines
print_chip_all_lines ==
    /\ scan.pc = "scan"
    /\ lopts.lines = <<>>
    /\ LET c  == scan.chips[scan.idx]
           ch == sys[c + 1]
           sc == all_lines(c, 0, num_read(c), scan)
       IN  scan' = CASE ch.fail = "open" -> open_failed(c, scan)
                     [] ch.fail = "info" -> Err(scan)
                     [] ch.fail = "line_info" -> Err(sc)
                     [] OTHER -> end_of_chip([sc EXCEPT !.scanned = Append(@, c)])
    /\ UNCHANGED <<lopts, sys, setter_vars, codec_vars, parse_vars>>

\* one pass of `for p in chips` in strict mode: print_chip_matching_lines
print_chip_matching_lines ==
    /\ scan.pc = "scan"
    /\ lopts.lines # <<>>
    /\ LET c  == scan.chips[scan.idx]
           ch == sys[c + 1]
           sc == match_lines(c, 0, num_read(c), scan)
       IN  scan' = CASE ch.fail = "open" ->
                          \* cmd drops the Ok(false): success is set from counts
                          [open_failed(c, scan) EXCEPT !.success = TRUE]
                     [] ch.fail = "info" -> Err(scan)
                     [] ch.fail = "line_info" -> Err(sc)
                     [] OTHER -> end_of_chip([sc EXCEPT !.scanned = Append(@, c)])
    /\ UNCHANGED <<lopts, sys, setter_vars, codec_vars, parse_vars>>

\* the first offset of chip c, among the first n, that matches id; -1: none
first_match(c, id, n) ==
    LET ms == {o \in 0..(n - 1) : line_matches(id, sys[c + 1].names[o + 1], o)}
    IN  IF ms = {} THEN -1 ELSE CHOOSE o \in ms : \A p \in ms : o <= p

\* common::resolve_lines, not strict: the chips are gone through in order
\* until every identifier is found; the first match of an identifier wins
RECURSIVE resolve_lines(_, _, _)
resolve_lines(chips, k, found) ==
    IF k > Len(chips) \/ \A i \in DOMAIN found : found[i] # <<>>
    THEN [ok |-> \A i \in DOMAIN found : found[i] # <<>>, lines |-> found]
    ELSE LET c  == chips[k]
             ch == sys[c + 1]
         IN  IF ch.fail = "open" /\ lopts.chip = <<>>
             THEN resolve_lines(chips, k + 1, found)
             ELSE IF ch.fail # "none"
             THEN [ok |-> FALSE, lines |-> found]
             ELSE resolve_lines(chips, k + 1,
                    [i \in DOMAIN found |->
                        IF found[i] = <<>> /\ first_match(c, lopts.lines[i], Len(ch.names)) # -1
                        THEN <<[chip_idx |-> c,
                                offset |-> first_match(c, lopts.lines[i], Len(ch.names))]>>
                        ELSE found[i]])

\* the offsets of a set in increasing order: sort_unstable and dedup
RECURSIVE sorted(_)
sorted(S) ==
    IF S = {} THEN <<>>
    ELSE LET m == CHOOSE o \in S : \A p \in S : o <= p
         IN  <<m>> \o sorted(S \ {m})

\* the lines print_first_matching_lines prints: chip by chip, by offset
RECURSIVE first_matching(_, _, _)
first_matching(found, c, out) ==
    IF c >= Len(sys)
    THEN out
    ELSE LET offs == sorted({found[i][1].offset : i \in
                                {j \in DOMAIN found : found[j][1].chip_idx = c}})
         IN  first_matching(found, c + 1,
                            out \o [i \in 1..Len(offs) |-> <<c, offs[i], 0>>])

\* cmd with identifiers and not strict: print_first_matching_lines
print_first_matching_lines ==
    /\ scan.pc = "start"
    /\ ~(lopts.lines = <<>> \/ lopts.strict)
    /\ LET s == IF lopts.chip # <<>> THEN chip_lookup_from_id(lopts.chip[1])
                                    ELSE all_chip_paths
           r == resolve_lines(s.chips, 1, [i \in 1..Len(lopts.lines) |-> <<>>])
       IN  scan' = IF s.ok /\ r.ok
                   THEN [scan EXCEPT !.pc = "done", !.result = "true",
                                     !.chips = s.chips,
                                     !.printed = first_matching(r.lines, 0, <<>>)]
                   ELSE Err(scan)
    /\ UNCHANGED <<lopts, sys, setter_vars, codec_vars, parse_vars>>

NextLine ==
    \/ line_cmd
    \/ print_chip_all_lines
    \/ print_chip_matching_lines
    \/ print_first_matching_lines

SpecLine == InitLine /\ [][NextLine]_vars

----------------------------------------------------------------------------
(* The parsers of the set command: cli set.rs *)

\* at most this many characters in a line name as typed
MaxNameLen == 3
\* at most this many characters in a command line
MaxLineLen == 5
\* at most this many calls of CommandWords::next return None
MaxNones == 2

\* the characters of the line names tried, and the values tried
NameChars == {"l", Quote, "="}
ValueTexts ==
    {<<>>, <<"0">>, <<"1">>, <<"3">>,
     <<"o", "n">>, <<"O", "N">>, <<"o", "f", "f">>, <<"O", "f", "f">>,
     <<"t", "r", "u", "e">>, <<"T", "R", "U", "E">>,
     <<"f", "a", "l", "s", "e">>, <<"F", "a", "l", "s", "e">>,
     <<"a", "c", "t", "i", "v", "e">>, <<"A", "C", "T", "I", "V", "E">>,
     <<"i", "n", "a", "c", "t", "i", "v", "e">>,
     <<"I", "n", "A", "c", "T", "i", "V", "e">>,
     <<"o", "n", "e">>, <<"n", "o">>}
\* the arguments given to parse_line_value: a name, then a value, with or
\* without a '=' between them
LineValueTexts ==
    {n \o e \o v : n \in SeqsUpTo(NameChars, MaxNameLen),
                   e \in {<<>>, <<"=">>},
                   v \in ValueTexts}
\* the command lines given to CommandWords
LineChars == {"a", Space, Quote}
CommandLines == SeqsUpTo(LineChars, MaxLineLen)

UpperCase == <<"A", "C", "E", "F", "I", "L", "N", "O", "R", "S", "T", "U", "V">>
LowerCase == <<"a", "c", "e", "f", "i", "l", "n", "o", "r", "s", "t", "u", "v">>

\* str::to_lowercase, for the letters of the values
to_lowercase(s) ==
    [i \in DOMAIN s |->
        IF \E k \in DOMAIN UpperCase : UpperCase[k] = s[i]
        THEN LowerCase[CHOOSE k \in DOMAIN UpperCase : UpperCase[k] = s[i]]
        ELSE s[i]]

\* str::contains
contains(s, c) == \E i \in DOMAIN s : s[i] = c

\* str::rfind: the last place of c in s, counted from 1; 0 is None
rfind(s, c) ==
    IF contains(s, c)
    THEN CHOOSE i \in DOMAIN s :
            s[i] = c /\ \A j \in DOMAIN s : s[j] = c => j <= i
    ELSE 0

InactiveWords ==
    {<<"0">>, <<"i", "n", "a", "c", "t", "i", "v", "e">>, <<"o", "f", "f">>,
     <<"f", "a", "l", "s", "e">>}
ActiveWords ==
    {<<"1">>, <<"a", "c", "t", "i", "v", "e">>, <<"o", "n">>,
     <<"t", "r", "u", "e">>}

\* LineValue::from_str, with the Display of InvalidLineValue
LineValue_from_str(s) ==
    LET lower_s == to_lowercase(s)
    IN  IF lower_s \in InactiveWords
        THEN [ok |-> TRUE, value |-> 0, err |-> <<>>]
        ELSE IF lower_s \in ActiveWords
        THEN [ok |-> TRUE, value |-> 1, err |-> <<>>]
        ELSE [ok |-> FALSE, value |-> 0,
              err |-> <<"invalid line value: '">> \o s \o <<"'">>]

\* parse_line_value
parse_line_value(s) ==
    LET pos == rfind(s, "=")
    IN  IF pos = 0
        THEN [NoParse EXCEPT !.called = TRUE,
                !.err = <<"invalid line=value: no '=' found in '">> \o s \o <<"'">>]
        ELSE LET ln == unquoted(SubSeq(s, 1, pos - 1))
                 v  == LineValue_from_str(SubSeq(s, pos + 1, Len(s)))
             IN  IF contains(ln, Quote)
                 THEN [NoParse EXCEPT !.called = TRUE,
                         !.err = <<"invalid line=value: semi-quoted line name in '">>
                                 \o s \o <<"'">>]
                 ELSE IF v.ok
                 THEN [called |-> TRUE, ok |-> TRUE, name |-> ln,
                       value |-> v.value, err |-> <<>>]
                 ELSE [NoParse EXCEPT !.called = TRUE, !.err = v.err]

NoWords == [w |-> CommandWords_new, words |-> <<>>, nones |-> 0]

InitParse ==
    /\ SetterIdle
    /\ CodecIdle
    /\ LineIdle
    /\ text \in LineValueTexts \cup CommandLines
    /\ parsed = NoParse
    /\ cw = NoWords

\* a call of parse_line_value on the text
parse_line_value_call ==
    /\ cw # <<>>
    /\ ~parsed.called
    /\ parsed' = parse_line_value(text)
    /\ UNCHANGED <<text, cw, setter_vars, codec_vars, line_vars>>

\* a call of next on the CommandWords of the text
CommandWords_next_call ==
    /\ cw # <<>>
    /\ cw.nones < MaxNones
    /\ LET r == CommandWords_next(text, cw.w)
       IN  cw' = [w     |-> r.w,
                  words |-> cw.words \o r.ret,
                  nones |-> IF r.ret = <<>> THEN cw.nones + 1 ELSE cw.nones]
    /\ UNCHANGED <<text, parsed, setter_vars, codec_vars, line_vars>>

NextParse ==
    \/ parse_line_value_call
    \/ CommandWords_next_call

SpecParse == InitParse /\ [][NextParse]_vars

----------------------------------------------------------------------------
(* Properties *)

\* the value a line is requested with
InitValue(id) ==
    opts.line_values[CHOOSE i \in 1..Len(opts.line_values) :
                        opts.line_values[i][1] = id][2]

\* the lines that were dirty on chip c when the last update was called
WasDirtyOn(c) ==
    {id \in DOMAIN upd.pre : upd.pre[id].dirty /\ upd.pre[id].chip_idx = c}

\* the set-values operations the last update issued to chip c
OpsTo(c) == {i \in DOMAIN upd.ops : upd.ops[i].chip = c}

\* Setter::request opened a request on every chip
RequestSucceeded ==
    /\ Len(reqlog) = resolved.nchips
    /\ \A i \in DOMAIN reqlog : reqlog[i].ok

HoldOrZero == IF opts.hold_period = <<>> THEN 0 ELSE opts.hold_period[1]

\* C1: when every set-values operation of an update succeeds, each chip
\* that owned a dirty line received exactly one set-values operation and
\* each chip that owned none received none.
C1_OneSetPerDirtyChip ==
    (upd.called /\ upd.res = "ok") =>
        \A c \in 0..(resolved.nchips - 1) :
            Cardinality(OpsTo(c)) = IF WasDirtyOn(c) # {} THEN 1 ELSE 0

\* an update succeeded that wrote to one chip and left another chip alone
C1_Witness ==
    /\ upd.called /\ upd.res = "ok"
    /\ \E c, e \in 0..(resolved.nchips - 1) :
        /\ WasDirtyOn(c) # {} /\ Cardinality(OpsTo(c)) = 1
        /\ WasDirtyOn(e) = {} /\ OpsTo(e) = {}
        /\ \E id \in DOMAIN upd.pre : upd.pre[id].chip_idx = e

\* C2: each set-values operation an update issues to chip c carries exactly
\* the lines that were dirty and belong to chip c, each at its offset with
\* its in-memory value, and nothing else.
C2_OpCarriesDirtyLinesOfChip ==
    upd.called =>
        \A i \in DOMAIN upd.ops :
            LET op  == upd.ops[i]
                ids == WasDirtyOn(op.chip)
            IN  /\ DOMAIN op.values = {upd.pre[id].offset : id \in ids}
                /\ \A id \in ids :
                    /\ op.values[upd.pre[id].offset] = upd.pre[id].value
                    /\ op.values[upd.pre[id].offset] = upd.post[id].value

\* two dirty lines on one chip and one on another, at an offset the first
\* chip also uses: two operations, one per chip
C2_Witness ==
    /\ upd.called /\ upd.res = "ok"
    /\ Len(upd.ops) = 2
    /\ \E c, e \in 0..(resolved.nchips - 1) :
        /\ c # e
        /\ Cardinality(WasDirtyOn(c)) = 2
        /\ Cardinality(WasDirtyOn(e)) = 1
        /\ \E a \in WasDirtyOn(c), b \in WasDirtyOn(e) :
            /\ upd.pre[a].offset = upd.pre[b].offset
            /\ upd.pre[a].value # upd.pre[b].value

\* C3: after an update returns success no requested line is dirty.
C3_CleanAfterUpdate ==
    (upd.called /\ upd.res = "ok") =>
        /\ \A id \in DOMAIN upd.post : ~upd.post[id].dirty
        /\ lines = upd.post

\* an update succeeded that was called with dirty lines on two chips
C3_Witness ==
    /\ upd.called /\ upd.res = "ok"
    /\ \E c, e \in 0..(resolved.nchips - 1) :
        c # e /\ WasDirtyOn(c) # {} /\ WasDirtyOn(e) # {}
    /\ \E id \in DOMAIN upd.pre : ~upd.pre[id].dirty

\* C4: an interactive set that names a line that is not requested fails,
\* issues no set-values operation, and after the error is handled every
\* line's dirty flag is what it was before the command.
C4_BadSetLeavesNoDirt ==
    (cmdrec.kind = "set" /\ \E i \in DOMAIN cmdrec.named :
                                cmdrec.named[i] \notin DOMAIN lines) =>
        /\ cmdrec.err = "not_requested"
        /\ ~upd.called
        /\ \A id \in DOMAIN lines : lines[id].dirty = cmdrec.pre[id].dirty

\* a set named a requested line, marked it dirty, then met the bad name
C4_Witness ==
    /\ cmdrec.kind = "set" /\ cmdrec.err = "not_requested"
    /\ Len(cmdrec.named) = 2 /\ cmdrec.named[2] = NotRequested
    /\ cmdrec.marked[cmdrec.named[1]].dirty
    /\ ~lines[cmdrec.named[1]].dirty

\* C5: after a set or toggle fails on a line that is not requested, every
\* line's in-memory value is what it was before the command.
C5_BadCommandRestoresValues ==
    (cmdrec.kind \in {"set", "toggle"} /\ cmdrec.err = "not_requested") =>
        \A id \in DOMAIN lines : lines[id].value = cmdrec.pre[id].value

\* C6: whenever the interactive loop is about to read a command, no
\* requested line is dirty.
C6_CleanAtPrompt ==
    pc \in {"interact", "handled"} => \A id \in DOMAIN lines : ~lines[id].dirty

\* the loop is back at the prompt after a command that failed with lines
\* still marked dirty
C6_Witness ==
    /\ pc = "handled"
    /\ cmdrec.err \in {"not_requested", "set_failed"}
    /\ \/ \E id \in DOMAIN cmdrec.marked :
            cmdrec.err = "not_requested" /\ cmdrec.marked[id].dirty
       \/ \E id \in DOMAIN upd.post :
            cmdrec.err = "set_failed" /\ upd.called /\ upd.post[id].dirty

\* C7: with toggle sequence [0], toggle never changes a line's value and
\* never issues a set-values operation.
C7_ZeroNeverToggles ==
    opts.toggle = << <<0>> >> =>
        /\ tl.flips = 0
        /\ ~upd.called
        /\ \A id \in DOMAIN lines : lines[id].value = InitValue(id)

\* C8 as claimed: with toggle sequence [0] the set command keeps its
\* requests: once the lines are requested they are never released.
C8_ZeroHoldsForever ==
    (impl = "cli" /\ opts.toggle = << <<0>> >> /\ RequestSucceeded) =>
        /\ pc # "released"
        /\ Len(requests) = resolved.nchips

\* C8 as amended: with toggle sequence [0] toggle blocks for the hold
\* period (not at all when there is none), flips nothing, and returns
\* success; cmd returns and the requests are released.
C8_ZeroHoldsThenReturns ==
    [][(impl = "cli" /\ opts.toggle = << <<0>> >> /\ pc = "toggle") =>
          /\ pc' = "released"
          /\ result' = "ok"
          /\ requests' = <<>>
          /\ tl'.slept = HoldOrZero
          /\ tl'.flips = 0 /\ tl'.iter = 0
          /\ lines' = lines
          /\ upd' = upd]_vars

\* toggle returned for [0] after blocking for the hold period
C8_Witness ==
    /\ impl = "cli" /\ opts.toggle = << <<0>> >>
    /\ pc = "released" /\ result = "ok" /\ requests = <<>>
    /\ opts.hold_period # <<>> /\ tl.slept = opts.hold_period[1]

\* C9: with toggle sequence [10ms, 0] and one line, the value is flipped
\* exactly once, by one set-values operation after the 10ms wait, and then
\* toggle returns.
C9_FlipsOnceThenReturns ==
    (/\ opts.toggle = << <<10, 0>> >>
     /\ Len(opts.line_values) = 1
     /\ pc = "released" /\ result = "ok") =>
        /\ tl.flips = 1
        /\ upd.called /\ Len(upd.ops) = 1
        /\ \A id \in DOMAIN lines : lines[id].value = not(InitValue(id))

\* C10: with a last period that is not zero, toggle returns only when a
\* set-values operation fails; the k-th wait uses period k mod n, the index
\* wraps to 0 after the last period, and every flip inverts every line.
C10_CyclesForever ==
    LET ts == opts.toggle[1]
        n  == Len(ts)
    IN  (opts.toggle # <<>> /\ opts.toggle[1][Len(opts.toggle[1])] # 0
         /\ RequestSucceeded) =>
            /\ pc \in {"toggle", "released"}
            /\ pc = "released" =>
                result = "err" /\ upd.called /\ upd.res = "err"
            /\ tl.flips = tl.iter
            /\ count = tl.iter % n
            /\ tl.iter > 0 =>
                /\ tl.idx = (tl.iter - 1) % n
                /\ tl.slept = Max(ts[((tl.iter - 1) % n) + 1], HoldOrZero)
            /\ \A id \in DOMAIN lines :
                lines[id].value = IF tl.flips % 2 = 0 THEN InitValue(id)
                                                      ELSE not(InitValue(id))

\* [10, 20] went round: the third wait used the first period again
C10_Witness ==
    /\ opts.toggle = << <<10, 20>> >>
    /\ pc = "toggle"
    /\ tl.iter = 3 /\ tl.idx = 0 /\ tl.slept = 10 /\ count = 1
    /\ tl.flips = 3

\* C11: a sleep of duration d issued right after a set or toggle whose
\* update triggered a hold of period p blocks for d - p when d >= p and
\* not at all when d < p; with p = 50ms a sleep of 50ms blocks for 0 and a
\* sleep of 80ms blocks for 30ms.
C11_SleepNetOfHold ==
    (cmdrec.kind = "sleep" /\ prev_held) =>
        LET p == opts.hold_period[1]
            d == cmdrec.d
        IN  /\ d >= p => cmdrec.slept = d - p
            /\ d < p => cmdrec.slept = 0
            /\ (p = 50 /\ d = 50) => cmdrec.slept = 0
            /\ (p = 50 /\ d = 80) => cmdrec.slept = 30

\* sleep 80ms right after a set that held for 50ms blocked for 30ms
C11_Witness ==
    /\ cmdrec.kind = "sleep" /\ prev_held
    /\ opts.hold_period = <<50>>
    /\ cmdrec.d = 80 /\ cmdrec.slept = 30

\* C12: when the line request of a chip fails, no request is issued to the
\* chips after it, the command ends with an error with every request
\* released, and no hold, toggle, interactive command or set-values
\* operation has taken place; a command that ends in success, or that holds
\* any request, has requested every chip.
C12_RequestFailsAsAWhole ==
    /\ (\E i \in DOMAIN reqlog : ~reqlog[i].ok) =>
            /\ \A i \in DOMAIN reqlog : ~reqlog[i].ok => i = Len(reqlog)
            /\ pc = "released" /\ result = "err"
            /\ requests = <<>>
            /\ last_held = FALSE
            /\ cmdrec = NoCmd
            /\ tl = NoToggle
            /\ ~upd.called
            /\ \A id \in DOMAIN lines :
                  lines[id].value = InitValue(id) /\ ~lines[id].dirty
    /\ (pc = "released" /\ result = "ok") => RequestSucceeded
    /\ requests # <<>> =>
            RequestSucceeded /\ requests = [i \in 1..resolved.nchips |-> i - 1]

\* the request on the first of two chips succeeded, the one on the second
\* failed, and the command ended with no request left
C12_Witness ==
    /\ resolved.nchips = 2
    /\ Len(reqlog) = 2 /\ reqlog[1].ok /\ ~reqlog[2].ok
    /\ pc = "released" /\ result = "err" /\ requests = <<>>

C13_WireSizes ==
    /\ size_of(LineInfo) = 72
    /\ size_of(LineInfoChangeEvent) = 104
    /\ size_of(HandleRequest) = 364
    /\ size_of(HandleConfig) = 84
    /\ size_of(LineValues) = 64
    /\ size_of(EventRequest) = 48
    /\ size_of(LineEdgeEvent) = 16
    /\ uapi.op \in {"get_line_info", "watch_line_info"} => uapi.size = 72
    /\ uapi.op = "LineInfoChangeEvent::from_buf" => uapi.size = 104
    /\ uapi.op = "get_line_handle" => uapi.size = 364
    /\ uapi.op = "set_line_config" => uapi.size = 84
    /\ uapi.op \in {"get_line_values", "set_line_values"} => uapi.size = 64
    /\ uapi.op = "get_line_event" => uapi.size = 48
    /\ uapi.op = "LineEdgeEvent::from_buf" => uapi.size = 16

\* an edge event was read: 16 bytes for fields of 8 and 4 bytes, the rest
\* being the padding that aligns the structure to its u64
C13_Witness ==
    /\ uapi.op = "LineEdgeEvent::from_buf"
    /\ uapi.size = 16
    /\ size_of(u64) + size_of(LineEdgeEventKind) = 12
    /\ LineEdgeEvent.align = 8

\* C14: LineEdgeEvent validation succeeds for raw kinds 1 and 2 whatever
\* the timestamp; for every other raw kind (0 and 3 at the boundaries) it
\* fails with a validation error of field "kind" and message
\* "invalid value: <raw kind>"; from_buf returns the event only when the
\* validation succeeds.
C14_EdgeEventKindValidated ==
    uapi.op = "LineEdgeEvent::from_buf" =>
        /\ wire.kind \in {1, 2} =>
                /\ uapi.ok /\ uapi.err = <<>>
                /\ uapi.event = <<[timestamp_ns |-> wire.timestamp_ns,
                                   kind |-> wire.kind]>>
        /\ wire.kind \notin {1, 2} =>
                /\ ~uapi.ok /\ uapi.event = <<>>
                /\ Len(uapi.err) = 1
                /\ uapi.err[1].field = "kind"
                /\ uapi.err[1].msg = <<"invalid value: ">> \o Decimal(wire.kind)
        /\ wire.kind = 0 => uapi.err[1].msg = <<"invalid value: ", "0">>
        /\ wire.kind = 3 => uapi.err[1].msg = <<"invalid value: ", "3">>

\* an edge event of kind 3, one past the last variant, was rejected
C14_Witness ==
    /\ uapi.op = "LineEdgeEvent::from_buf"
    /\ wire.kind = 3 /\ wire.timestamp_ns = 1234
    /\ ~uapi.ok /\ uapi.event = <<>>
    /\ uapi.err = <<[field |-> "kind", msg |-> <<"invalid value: ", "3">>]>>

\* C15: LineInfoChangeEvent validation succeeds for raw kinds 1, 2 and 3
\* whatever the timestamp and the line info; for every other raw kind (0
\* and 4 at the boundaries) it fails with a validation error of field
\* "kind" and message "invalid value: <raw kind>"; from_buf never returns
\* an event whose kind is not a variant.
C15_InfoChangeKindValidated ==
    uapi.op = "LineInfoChangeEvent::from_buf" =>
        /\ wire.kind \in {1, 2, 3} =>
                /\ uapi.ok /\ uapi.err = <<>>
                /\ uapi.event = <<[info |-> wire.info,
                                   timestamp_ns |-> wire.timestamp_ns,
                                   kind |-> wire.kind]>>
        /\ wire.kind \notin {1, 2, 3} =>
                /\ ~uapi.ok
                /\ Len(uapi.err) = 1
                /\ uapi.err[1].field = "kind"
                /\ uapi.err[1].msg = <<"invalid value: ">> \o Decimal(wire.kind)
        /\ wire.kind = 0 => uapi.err[1].msg = <<"invalid value: ", "0">>
        /\ wire.kind = 4 => uapi.err[1].msg = <<"invalid value: ", "4">>
        /\ \A i \in DOMAIN uapi.event : uapi.event[i].kind \in {1, 2, 3}

\* a change event of kind 4, one past the last variant, was rejected, and
\* no event was returned
C15_Witness ==
    /\ uapi.op = "LineInfoChangeEvent::from_buf"
    /\ wire.kind = 4 /\ wire.info.offset = 1
    /\ ~uapi.ok /\ uapi.event = <<>>
    /\ uapi.err = <<[field |-> "kind", msg |-> <<"invalid value: ", "4">>]>>

\* the line command was given identifiers in strict mode
StrictIds == lopts.strict /\ lopts.lines # <<>>

LineName(c, o) == sys[c + 1].names[o + 1]

\* the lines reported for the i-th identifier, as places in the output
Printed(i) == {j \in DOMAIN scan.printed : scan.printed[j][3] = i}

MatchCount(i) == Cardinality(Printed(i))

\* the chip lookup, the open of the given chip, or a chip info or line
\* info read of a chip in scope fails
QueryFails ==
    \/ lopts.chip # <<>> /\ lopts.chip[1] >= Len(sys)
    \/ lopts.chip # <<>> /\ lopts.chip[1] < Len(sys)
          /\ sys[lopts.chip[1] + 1].fail # "none"
    \/ lopts.chip = <<>> /\ \E k \in DOMAIN sys : sys[k].fail \in {"info", "line_info"}

ByRule(id, c, o) ==
    \/ id = LineName(c, o)
    \/ lopts.chip # <<>> /\ ~lopts.by_name /\ id = Decimal(o)

\* the lines of the chips that were scanned
ScannedLines ==
    UNION {{<<scan.scanned[k], o>> : o \in 0..(Len(sys[scan.scanned[k] + 1].names) - 1)} :
            k \in DOMAIN scan.scanned}

\* C17: in strict mode a scan that completes counts, for every identifier,
\* every line of the scanned chips that matches it, and reports each such
\* line once, in chip order then offset order: the scan stops neither at
\* the first match nor at an identifier with no match or with several.
C17_EveryMatchCounted ==
    (StrictIds /\ scan.pc = "done" /\ scan.result # "err") =>
        \A i \in DOMAIN lopts.lines :
            /\ scan.counts[i] =
                  Cardinality({l \in ScannedLines : ByRule(lopts.lines[i], l[1], l[2])})
            /\ {<<scan.printed[j][1], scan.printed[j][2]>> : j \in Printed(i)} =
                  {l \in ScannedLines : ByRule(lopts.lines[i], l[1], l[2])}
            /\ \A j, k \in Printed(i) :
                  j < k => \/ scan.printed[j][1] < scan.printed[k][1]
                           \/ /\ scan.printed[j][1] = scan.printed[k][1]
                              /\ scan.printed[j][2] < scan.printed[k][2]

\* one identifier was found on two lines of the first chip and on a line
\* of the second, while another identifier was found nowhere
C17_Witness ==
    /\ StrictIds /\ scan.pc = "done" /\ scan.result = "false"
    /\ \E i, m \in DOMAIN lopts.lines :
        /\ MatchCount(m) = 0
        /\ MatchCount(i) = 3
        /\ \E j, k \in Printed(i) :
              j < k /\ scan.printed[j][1] = 0 /\ scan.printed[k][1] = 1
        /\ \E j, k \in Printed(i) :
              /\ j < k /\ scan.printed[j][1] = scan.printed[k][1]
              /\ scan.printed[j][2] < scan.printed[k][2]

C19_OpenFailure ==
    (scan.pc = "done" /\ (lopts.lines = <<>> \/ lopts.strict)) =>
        /\ (lopts.chip = <<>> /\ \E k \in DOMAIN sys : sys[k].fail = "open") =>
              /\ scan.result # "err"
              /\ \A k \in DOMAIN sys :
                    IF sys[k].fail = "open"
                    THEN /\ \E j \in DOMAIN scan.skipped : scan.skipped[j] = k - 1
                         /\ \A j \in DOMAIN scan.scanned : scan.scanned[j] # k - 1
                         /\ \A j \in DOMAIN scan.printed : scan.printed[j][1] # k - 1
                    ELSE \E j \in DOMAIN scan.scanned : scan.scanned[j] = k - 1
              /\ \A j, k \in DOMAIN scan.scanned :
                    j < k => scan.scanned[j] < scan.scanned[k]
        /\ (lopts.chip # <<>> /\ lopts.chip[1] < Len(sys)
              /\ sys[lopts.chip[1] + 1].fail = "open") =>
              /\ scan.result = "err"
              /\ scan.scanned = <<>> /\ scan.skipped = <<>>
              /\ scan.printed = <<>>

\* the first of two chips could not be opened; the second was scanned and
\* a line of it reported
C19_Witness ==
    /\ scan.pc = "done" /\ lopts.strict /\ lopts.chip = <<>>
    /\ Len(sys) = 2 /\ sys[1].fail = "open"
    /\ scan.skipped = <<0>> /\ scan.scanned = <<1>>
    /\ scan.printed # <<>>
    /\ scan.result = "true"

\* no toggle sequence and not interactive
Plain == opts.toggle = <<>> /\ ~opts.interactive

\* every chip's request is held
AllHeld == requests = [i \in 1..resolved.nchips |-> i - 1]

\* C21: in plain mode (no toggle sequence, not interactive) cmd, having
\* requested the lines and held them for the hold period, blocks on the
\* edge event read of Setter::wait: it has not returned, and every request
\* is held, for as long as that read is pending.
C21_PlainModeBlocks ==
    [][/\ (Plain /\ pc = "start" /\ Len(reqlog') = resolved.nchips
              /\ \A i \in DOMAIN reqlog' : reqlog'[i].ok) =>
              /\ pc' = "wait"
              /\ cmdrec'.kind = "cmd" /\ cmdrec'.slept = HoldOrZero
       /\ pc' = "wait" => (result' = "none" /\ AllHeld')
       /\ (Plain /\ pc' = "released" /\ result' = "ok") => pc = "wait"]_vars

\* C22: whenever cmd has returned, with success or with an error, every
\* request it opened has been released; requests are held only while cmd
\* runs.
C22_ReleasedOnEveryReturn ==
    /\ result # "none" <=> pc = "released"
    /\ pc = "released" => requests = <<>>
    /\ requests # <<>> => (AllHeld /\ pc \in {"toggle", "interact", "handled", "wait"})
    /\ (pc \notin {"start", "released"}) => AllHeld

\* the toggle loop returned the error of a set-values operation on the
\* second of two chips, the requests of both chips having been opened
C22_Witness ==
    /\ pc = "released" /\ result = "err"
    /\ resolved.nchips = 2 /\ RequestSucceeded
    /\ upd.called /\ upd.res = "err" /\ Len(upd.ops) = 2
    /\ requests = <<>>

\* C23: when a set-values operation has failed, in toggle mode or in an
\* interactive set or toggle command, the set command has ended with an
\* error result.
C23_FailedSetEndsWithError ==
    (upd.called /\ upd.res = "err") => (pc = "released" /\ result = "err")

\* the toggle sequence has two periods or more and its last period is zero
EndsInZero ==
    /\ opts.toggle # <<>>
    /\ Len(opts.toggle[1]) >= 2
    /\ opts.toggle[1][Len(opts.toggle[1])] = 0

\* the time blocked in the first k waits of the toggle loop
RECURSIVE Waited(_)
Waited(k) == IF k = 0 THEN 0 ELSE Waited(k - 1) + tl.waits[k][2]

\* the sum of the first k periods of the toggle sequence
RECURSIVE PeriodSum(_)
PeriodSum(k) == IF k = 0 THEN 0 ELSE PeriodSum(k - 1) + opts.toggle[1][k]

\* C27: with a toggle sequence of n >= 2 periods whose last period is zero,
\* Setter::toggle waits for the first n-1 periods, each once and in order,
\* and has returned success once the wait of period n-1 is over (after the
\* sum of the periods when there is no hold period: 4s for 1s,2s,1s,0); the
\* index never goes back to 0; it returns earlier only with the error of a
\* set-values operation.
C27_ZeroEndedSequenceTerminates ==
    (EndsInZero /\ RequestSucceeded) =>
        LET ts == opts.toggle[1]
            n  == Len(ts)
        IN  /\ pc \in {"toggle", "released"}
            /\ tl.iter <= n - 1
            /\ Len(tl.waits) = tl.iter
            /\ \A i \in DOMAIN tl.waits :
                  tl.waits[i] = <<i - 1, Max(ts[i], HoldOrZero)>>
            /\ pc = "toggle" => (count = tl.iter /\ tl.iter < n - 1)
            /\ tl.iter = n - 1 => (pc = "released" /\ result = "ok")
            /\ (pc = "released" /\ result = "ok") =>
                  /\ tl.iter = n - 1
                  /\ opts.hold_period = <<>> => Waited(n - 1) = PeriodSum(n - 1)
                  /\ (opts.hold_period = <<>> /\ ts = DocSequence) =>
                        Waited(n - 1) = 4000
            /\ (pc = "released" /\ result = "err") =>
                  (upd.called /\ upd.res = "err" /\ tl.iter < n - 1)

\* 1s,2s,1s,0 with no hold period: three waits, 4s in all, then success
C27_Witness ==
    /\ opts.toggle = <<DocSequence>> /\ opts.hold_period = <<>>
    /\ pc = "released" /\ result = "ok"
    /\ tl.waits = << <<0, 1000>>, <<1, 2000>>, <<2, 1000>> >>
    /\ Waited(3) = 4000
    /\ tl.flips = 2

\* C28: in toggle mode every wait lasts max(current period, hold period),
\* so never less than the hold period, also for a zero period; every flip
\* comes after a wait of its own, inverts every requested line, and issues
\* one set-values operation, carrying all lines of the chip, to each chip
\* in turn (up to the chip whose operation fails, if one fails).
C28_ToggleWaitsAndFlips ==
    (opts.toggle # <<>> /\ RequestSucceeded) =>
        LET ts == opts.toggle[1]
        IN  /\ \A i \in DOMAIN tl.waits :
                  LET period == ts[tl.waits[i][1] + 1]
                  IN  /\ tl.waits[i][2] = Max(period, HoldOrZero)
                      /\ tl.waits[i][2] >= HoldOrZero
                      /\ period = 0 => tl.waits[i][2] = HoldOrZero
            /\ Len(tl.waits) = tl.iter
            /\ tl.flips \in {tl.iter - 1, tl.iter}
            /\ tl.flips > 0 <=> upd.called
            /\ \A id \in DOMAIN lines :
                  lines[id].value = IF tl.flips % 2 = 0 THEN InitValue(id)
                                                        ELSE not(InitValue(id))
            /\ upd.called =>
                  /\ \A id \in DOMAIN upd.pre :
                        upd.pre[id].dirty /\ upd.pre[id].value = lines[id].value
                  /\ \A i \in DOMAIN upd.ops :
                        /\ upd.ops[i].chip = i - 1
                        /\ upd.ops[i].values = chip_config(lines, i - 1)
                        /\ ~upd.ops[i].ok => i = Len(upd.ops)
                  /\ upd.res = "ok" => Len(upd.ops) = resolved.nchips
                  /\ upd.res = "err" => ~upd.ops[Len(upd.ops)].ok

\* 0,20 with a hold period of 10ms on two chips: the zero period was waited
\* for 10ms, twice, and the third flip wrote to both chips
C28_Witness ==
    /\ opts.toggle = << <<0, 20>> >> /\ opts.hold_period = <<10>>
    /\ resolved.nchips = 2
    /\ tl.waits = << <<0, 10>>, <<1, 20>>, <<0, 10>> >>
    /\ tl.flips = 3
    /\ upd.called /\ upd.res = "ok" /\ Len(upd.ops) = 2

\* C29: do_sleep clears last_held, so the overlap of a hold is taken off
\* one sleep at most: a sleep that follows another sleep, with no hold in
\* between, blocks for its full duration; and with no hold period every
\* sleep blocks for its full duration.
C29_OverlapSubtractedOnce ==
    cmdrec.kind = "sleep" =>
        /\ ~last_held
        /\ prev_slept => cmdrec.slept = cmdrec.d
        /\ opts.hold_period = <<>> => cmdrec.slept = cmdrec.d
        /\ cmdrec.slept # cmdrec.d =>
              cmdrec.slept = IF cmdrec.d < HoldOrZero THEN 0
                                                      ELSE cmdrec.d - HoldOrZero

\* with a hold period of 50ms, a sleep of 80ms that came after another
\* sleep blocked for 80ms
C29_Witness ==
    /\ cmdrec.kind = "sleep" /\ prev_slept
    /\ opts.hold_period = <<50>>
    /\ cmdrec.d = 80 /\ cmdrec.slept = 80

\* C30: last_held is true only when the last operation of the setter held:
\* after a get, after a set or toggle that failed, and after a set or
\* toggle that updated nothing, last_held is false.
C30_HeldOnlyAfterHold ==
    (/\ pc = "handled"
     /\ \/ cmdrec.kind = "get"
        \/ cmdrec.kind \in {"set", "toggle"} /\ cmdrec.err # "none"
        \/ cmdrec.kind \in {"set", "toggle"} /\ ~upd.updated) =>
        ~last_held

\* C24: after LineValues::set(idx, v), get(idx) returns v as it is, for any
\* byte v (42 as well as 0 and 1), and every other index reads what it read
\* before; get changes nothing; a default LineValues reads 0 at every
\* index.
C24_SetThenGet ==
    lvals # <<>> =>
        /\ (uapi.op = "LineValues::set" /\ uapi.ok) =>
              LET idx == uapi.event[1].idx
                  v   == uapi.event[1].value
              IN  /\ LineValues_get(lvals.a, idx) = [panic |-> FALSE, value |-> v]
                  /\ \A j \in DOMAIN lvals.a :
                        j # idx => LineValues_get(lvals.a, j) =
                                   LineValues_get(lvals.prev, j)
        /\ (uapi.op = "LineValues::get" /\ uapi.ok) =>
              /\ lvals.a = lvals.prev
              /\ (lvals.last # <<>> /\ lvals.last[1].idx = uapi.event[1].idx) =>
                    uapi.event[1].value = lvals.last[1].value
              /\ lvals.last = <<>> => uapi.event[1].value = 0
        /\ lvals.last = <<>> =>
              \A j \in DOMAIN lvals.a : LineValues_get(lvals.a, j).value = 0
        /\ DOMAIN lvals.a = 0..63

\* set(2, 42) was followed by get(2), which returned 42
C24_Witness ==
    /\ lvals # <<>>
    /\ uapi.op = "LineValues::get" /\ uapi.ok
    /\ lvals.last = <<[idx |-> 2, value |-> 42]>>
    /\ uapi.event = <<[idx |-> 2, value |-> 42]>>
    /\ lvals.a[0] = 0 /\ lvals.a[63] = 0

\* the text has a '=', and the place of its last one
HasEq == \E i \in DOMAIN text : text[i] = "="
LastEq ==
    CHOOSE i \in DOMAIN text :
        text[i] = "=" /\ \A j \in (i + 1)..Len(text) : text[j] # "="

\* the name and the value as typed: what is before and after the last '='
TypedName == SubSeq(text, 1, LastEq - 1)
TypedValue == SubSeq(text, LastEq + 1, Len(text))

QuotedWhole(n) == Len(n) >= 2 /\ n[1] = Quote /\ n[Len(n)] = Quote
QuotedOneSide(n) ==
    n # <<>> /\ ~QuotedWhole(n) /\ (n[1] = Quote \/ n[Len(n)] = Quote)
Inner(n) == IF QuotedWhole(n) THEN SubSeq(n, 2, Len(n) - 1) ELSE n

\* two texts that differ in the case of their letters at most
SameWord(a, b) ==
    /\ Len(a) = Len(b)
    /\ \A i \in DOMAIN a :
          \/ a[i] = b[i]
          \/ \E k \in DOMAIN UpperCase :
                {a[i], b[i]} = {UpperCase[k], LowerCase[k]}

Rejected(msg) ==
    ~parsed.ok /\ parsed.err = <<msg>> \o text \o <<"'">>

\* C25: parse_line_value accepts name=value where the value is, in any
\* case of its letters, one of 0, inactive, off, false (inactive) or 1,
\* active, on, true (active), and returns the name without the double
\* quotes that surround the whole of it; it rejects a text with no '=', a
\* name quoted on one side only (or with a quote inside), and any other
\* value, each with a message of its own; a name it returns has no double
\* quote.
C25_ParseLineValue ==
    parsed.called =>
        /\ ~HasEq => Rejected("invalid line=value: no '=' found in '")
        /\ HasEq =>
              LET n == TypedName
                  v == TypedValue
                  inactive == \E w \in InactiveWords : SameWord(v, w)
                  active   == \E w \in ActiveWords : SameWord(v, w)
                  bad_name == contains(Inner(n), Quote)
              IN  /\ QuotedOneSide(n) => bad_name
                  /\ bad_name =>
                        Rejected("invalid line=value: semi-quoted line name in '")
                  /\ (~bad_name /\ inactive) =>
                        parsed = [called |-> TRUE, ok |-> TRUE, name |-> Inner(n),
                                  value |-> 0, err |-> <<>>]
                  /\ (~bad_name /\ active) =>
                        parsed = [called |-> TRUE, ok |-> TRUE, name |-> Inner(n),
                                  value |-> 1, err |-> <<>>]
                  /\ (~bad_name /\ ~inactive /\ ~active) =>
                        (~parsed.ok /\ parsed.err =
                            <<"invalid line value: '">> \o v \o <<"'">>)
        /\ parsed.ok => ~contains(parsed.name, Quote)
        /\ text = <<"l", "=", "3">> =>
              parsed.err = <<"invalid line value: '", "3", "'">>

\* "l"=ON was parsed as the line l, active
C25_Witness ==
    /\ text = <<Quote, "l", Quote, "=", "O", "N">>
    /\ parsed.called /\ parsed.ok
    /\ parsed.name = <<"l">> /\ parsed.value = 1

\* the number of double quotes before place k of the text
QuotesBefore(k) == Cardinality({j \in 1..(k - 1) : text[j] = Quote})

\* place k of the text holds a space that is outside double quotes
IsSep(k) == text[k] = Space /\ QuotesBefore(k) % 2 = 0

\* the places where a word starts: after such a space, or at the start
WordStarts ==
    {i \in 1..Len(text) : ~IsSep(i) /\ (i = 1 \/ IsSep(i - 1))}

\* the place where the word that holds place i ends: before the next such
\* space, or at the end of the text
WordEnd(i) ==
    CHOOSE j \in i..Len(text) :
        /\ \A k \in i..j : ~IsSep(k)
        /\ j = Len(text) \/ IsSep(j + 1)

\* the longest stretches of the text that hold no such space, in the order
\* of the text
ExpectedWords ==
    LET st == WordStarts
    IN  [m \in 1..Cardinality(st) |->
            LET i == CHOOSE x \in st : Cardinality({y \in st : y < x}) = m - 1
            IN  SubSeq(text, i, WordEnd(i))]

\* C26: CommandWords returns, in order, the words of the line, split at the
\* spaces that are outside double quotes, any double quote inverting the
\* quoted state, each word with its quotes; once the last word is returned
\* partial is true exactly when the line ends inside that word and inquote
\* exactly when a quote is left open; the calls after that return None and
\* leave both flags alone.
C26_CommandWords ==
    cw # <<>> =>
        LET ew == ExpectedWords
        IN  /\ Len(cw.words) <= Len(ew)
            /\ cw.words = SubSeq(ew, 1, Len(cw.words))
            /\ cw.nones > 0 => cw.words = ew
            /\ ((cw.words = ew /\ ew # <<>>) \/ cw.nones > 0) =>
                  /\ cw.w.partial = (ew # <<>> /\ ~IsSep(Len(text)))
                  /\ cw.w.inquote = (QuotesBefore(Len(text) + 1) % 2 = 1)
            /\ Len(cw.words) < Len(ew) => (~cw.w.partial /\ ~cw.w.inquote)

\* `a "a ` gave the words `a` and `"a `, the second with its quote and the
\* space inside it, then None twice, with partial and inquote set
C26_Witness ==
    /\ text = <<"a", Space, Quote, "a", Space>>
    /\ cw # <<>>
    /\ cw.words = << <<"a">>, <<Quote, "a", Space>> >>
    /\ cw.nones = 2
    /\ cw.w.partial /\ cw.w.inquote

\* C31: with a hold period p, at least p elapses between two steps that
\* change output values.  The next command can be read, and a flip can
\* follow, as soon as a step is over, so every step that issues set-values
\* operations has blocked for p when the loop reads the next command, cmd
\* has blocked for p after the request when the first command is read, and
\* every flip of toggle mode comes after a wait of p or more.
C31_HoldBetweenChanges ==
    opts.hold_period # <<>> =>
        /\ (pc = "handled" /\ upd.ops # <<>>) => cmdrec.slept >= HoldOrZero
        /\ (pc = "interact" /\ cmdrec.kind = "cmd") => cmdrec.slept >= HoldOrZero
        /\ \A k \in DOMAIN tl.waits : tl.waits[k][2] >= HoldOrZero

\* C32: Setter::update takes a line's dirty flag from set to clear only
\* when a set-values operation that carries the line has succeeded: a
\* line that was dirty when update was called and is clean when it
\* returns was written by a successful operation on its chip, and the
\* lines of an operation that failed are still dirty when update returns.
C32_DirtyClearedOnlyAfterSuccess ==
    upd.called =>
        \A id \in DOMAIN upd.pre :
            (upd.pre[id].dirty /\ ~upd.post[id].dirty) =>
                \E i \in DOMAIN upd.ops :
                    /\ upd.ops[i].ok
                    /\ upd.ops[i].chip = upd.pre[id].chip_idx
                    /\ upd.pre[id].offset \in DOMAIN upd.ops[i].values

\* C33: a failing interactive command (unknown command, wrong arguments,
\* line not requested, failed set-values) never ends the session: it is
\* handled with cmd still running and every request held, and the next
\* command is read.  The interactive loop returns success only on exit,
\* end of input or interrupt (it returns an error only when reading a
\* command fails), and exit issues no set-values operation and changes no
\* line.
C33_FailingCommandKeepsSession ==
    /\ cmdrec.err \notin {"none", "read_failed"} =>
          /\ pc = "handled" /\ result = "none" /\ AllHeld
          /\ ENABLED interact_prompt
    /\ (pc = "released" /\ opts.interactive /\ RequestSucceeded) =>
          /\ result = "ok" <=> cmdrec.kind = "exit"
          /\ result = "err" <=> cmdrec.kind = "read_error"
    /\ cmdrec.kind = "exit" =>
          /\ upd = NoUpd
          /\ lines = cmdrec.pre

\* a set command naming a line that was not requested was handled with
\* the requests of two chips held and the session going on
C33_Witness ==
    /\ pc = "handled" /\ result = "none"
    /\ cmdrec.kind = "set" /\ cmdrec.err = "not_requested"
    /\ resolved.nchips = 2 /\ AllHeld

\* the lines of chip c, as resolved
LinesOn(c) == {id \in DOMAIN resolved.lines : resolved.lines[id].chip_idx = c}

\* the request i of reqlog is the one on chip i - 1 and makes every line of
\* that chip, and no other line, an output at its initial value
RequestedAsOutputs(log) ==
    /\ Len(log) <= resolved.nchips
    /\ \A i \in DOMAIN log :
          /\ log[i].chip = i - 1
          /\ DOMAIN log[i].config =
                {resolved.lines[id].offset : id \in LinesOn(i - 1)}
          /\ \A id \in LinesOn(i - 1) :
                log[i].config[resolved.lines[id].offset] = InitValue(id)

\* a hold, a pass of the toggle loop, an interactive command or an update
\* takes place in this step
Acts == cmdrec' # cmdrec \/ tl' # tl \/ upd' # upd

\* C34: cmd goes from Unrequested through Requested and one of hold,
\* toggle, interactive and wait to Released.  Before the request nothing
\* is held and nothing has been done; the request is issued once for every
\* chip, in chip order, with every line of the chip as an output at its
\* initial value; the first hold, every pass of the toggle loop and every
\* interactive command come after the requests of all chips succeeded;
\* a set-values operation goes to a chip whose request was opened and is
\* still held when the operation is issued; nothing follows the release.
C34_RequestThenActThenRelease ==
    [][/\ pc = "start" =>
            /\ reqlog = <<>> /\ requests = <<>>
            /\ cmdrec = NoCmd /\ tl = NoToggle /\ ~upd.called
            /\ RequestedAsOutputs(reqlog')
            /\ pc' \in {"toggle", "interact", "wait", "released"}
       /\ pc # "start" => reqlog' = reqlog
       /\ Acts =>
            /\ Len(reqlog') = resolved.nchips
            /\ \A i \in DOMAIN reqlog' : reqlog'[i].ok
            /\ pc # "start" => AllHeld
       /\ (upd' # upd /\ upd'.ops # <<>>) =>
            /\ pc \in {"toggle", "interact"}
            /\ \A i \in DOMAIN upd'.ops :
                  /\ upd'.ops[i].chip + 1 \in DOMAIN requests
                  /\ requests[upd'.ops[i].chip + 1] = upd'.ops[i].chip
                  /\ reqlog[upd'.ops[i].chip + 1].ok
       /\ pc' \in {"toggle", "interact", "handled", "wait"} => AllHeld'
       /\ pc # "released"]_vars

\* the second flip of toggle mode wrote to both of two chips, whose
\* requests are held
C34_Witness ==
    /\ pc = "toggle" /\ tl.flips = 2
    /\ resolved.nchips = 2 /\ RequestSucceeded /\ AllHeld
    /\ Len(upd.ops) = 2 /\ upd.res = "ok"

\* C35: with all chips in scope, the line command tolerates one unreadable
\* chip, whatever makes it unreadable: a chip whose open, chip info read
\* or line info read fails is skipped, the command returns no error, and
\* every other chip is scanned.
C35_UnreadableChipSkipped ==
    (scan.pc = "done" /\ (lopts.lines = <<>> \/ lopts.strict)
        /\ lopts.chip = <<>>) =>
        /\ scan.result # "err"
        /\ \A k \in DOMAIN sys :
              IF sys[k].fail # "none"
              THEN \A j \in DOMAIN scan.scanned : scan.scanned[j] # k - 1
              ELSE \E j \in DOMAIN scan.scanned : scan.scanned[j] = k - 1

\* C36: a line request whose flags hold mutually exclusive bits is
\* rejected with a configuration error before any kernel operation is
\* issued: get_line_handle fails with an error of its own and no ioctl
\* has gone to the kernel.
C36_ConflictingFlagsRejectedEarly ==
    (uapi.op = "get_line_handle" /\ uapi.event # <<>>
        /\ mutually_exclusive(uapi.event[1].flags)) =>
        /\ ~uapi.ok
        /\ uapi.nr = 0
        /\ uapi.err # <<>> /\ uapi.err[1] # last_os_error

\* the line ends inside a double quote that is not closed
Unclosed(line) == Cardinality({i \in DOMAIN line : line[i] = Quote}) % 2 = 1

\* the place in the line where its last word starts: after the last space
\* that stands outside quotes
LastWordStart(line) ==
    LET seps == {k \in DOMAIN line :
                    /\ line[k] = Space
                    /\ Cardinality({j \in 1..(k - 1) : line[j] = Quote}) % 2 = 0}
    IN  IF seps = {} THEN 1
        ELSE 1 + CHOOSE k \in seps : \A j \in seps : j <= k

\* C37: an interactive command line that ends inside an unclosed double
\* quote is rejected with the error `missing closing quote in '<last
\* word>'` before any command is dispatched: the command is handled with
\* no line's value or dirty flag changed and no update called; a toggle
\* whose quotes are closed is dispatched.
C37_UnclosedQuoteRejected ==
    (cmdrec.named # <<>> /\ cmdrec.named[1] = "toggle") =>
        LET line == cmdrec.named
        IN  IF Unclosed(line)
            THEN /\ cmdrec.err = "missing_quote"
                 /\ cmdrec.out = <<"missing closing quote in '">>
                        \o SubSeq(line, LastWordStart(line), Len(line))
                        \o <<"'">>
                 /\ pc = "handled" /\ result = "none"
                 /\ lines = cmdrec.pre
                 /\ upd = NoUpd
            ELSE /\ cmdrec.err # "missing_quote"
                 /\ upd.called

\* `toggle a "` was rejected with line a, on the first of two chips, as
\* it was, while `toggle a` would have flipped it
C37_Witness ==
    /\ pc = "handled" /\ cmdrec.err = "missing_quote"
    /\ cmdrec.named = <<"toggle", Space, "a", Space, Quote>>
    /\ cmdrec.out = <<"missing closing quote in '", Quote, "'">>
    /\ resolved.nchips = 2
    /\ lines["a"].value = InitValue("a") /\ ~lines["a"].dirty
    /\ upd = NoUpd

\* C38: LineEdgeEvent::from_buf and LineInfoChangeEvent::from_buf never
\* read beyond the buffer they are given: they read 16 and 104 bytes, an
\* event is returned only when the buffer is at least that long, and a
\* shorter buffer yields an error.
C38_FromBufWithinBuffer ==
    /\ uapi.op = "LineEdgeEvent::from_buf" =>
          /\ uapi.size = 16
          /\ uapi.ok => wire.len >= 16
          /\ wire.len < 16 => (~uapi.ok /\ uapi.event = <<>> /\ uapi.err # <<>>)
    /\ uapi.op = "LineInfoChangeEvent::from_buf" =>
          /\ uapi.size = 104
          /\ uapi.ok => wire.len >= 104
          /\ wire.len < 104 => (~uapi.ok /\ uapi.event = <<>> /\ uapi.err # <<>>)

\* C39: once Setter::request has succeeded there is one live request per
\* chip, requests[i] being the request opened on chip i, and the chip
\* index of every requested line is below the number of chips, which is
\* at least one; so update finds requests[idx] for the chip of every dirty
\* line, and wait finds requests[0].
C39_OneRequestPerChip ==
    /\ pc \in {"toggle", "interact", "handled", "wait"} =>
          /\ resolved.nchips >= 1
          /\ Len(requests) = resolved.nchips
          /\ \A i \in DOMAIN requests :
                /\ requests[i] = i - 1
                /\ reqlog[i].ok /\ reqlog[i].chip = requests[i]
          /\ \A id \in DOMAIN lines : lines[id].chip_idx \in 0..(Len(requests) - 1)
    /\ upd.called =>
          /\ \A id \in DOMAIN upd.pre :
                upd.pre[id].dirty => upd.pre[id].chip_idx < Len(reqlog)
          /\ \A i \in DOMAIN upd.ops :
                upd.ops[i].chip + 1 \in DOMAIN reqlog /\ reqlog[upd.ops[i].chip + 1].ok
          /\ upd.res = "ok" =>
                \A id \in DOMAIN upd.pre :
                    upd.pre[id].dirty =>
                        \E i \in DOMAIN upd.ops : upd.ops[i].chip = upd.pre[id].chip_idx
    /\ pc = "wait" => (requests # <<>> /\ requests[1] = 0)

\* an interactive command wrote the one dirty line to the second of two
\* chips, through the second request
C39_Witness ==
    /\ pc = "handled" /\ resolved.nchips = 2 /\ AllHeld
    /\ Len(upd.ops) = 1 /\ upd.ops[1].chip = 1 /\ upd.ops[1].ok
    /\ requests[2] = 1

\* C40: in Setter::toggle the index of the period read is within the
\* sequence, 0 <= count < length, in every pass of the loop and for every
\* sequence, one of a single period included: count is within the
\* sequence at the head of every pass, and the k-th wait read the period
\* at index (k - 1) modulo the length.
C40_PeriodIndexInRange ==
    opts.toggle # <<>> =>
        LET ts == opts.toggle[1]
        IN  /\ Len(ts) >= 1
            /\ count \in 0..(Len(ts) - 1)
            /\ tl.idx \in 0..(Len(ts) - 1)
            /\ \A k \in DOMAIN tl.waits :
                  /\ tl.waits[k][1] \in 0..(Len(ts) - 1)
                  /\ tl.waits[k][1] = (k - 1) % Len(ts)
            /\ (pc = "toggle" /\ tl.waits # <<>>) =>
                  count = Len(tl.waits) % Len(ts)

\* a sequence of a single period was gone through three times, each wait
\* reading index 0
C40_Witness ==
    /\ opts.toggle # <<>> /\ Len(opts.toggle[1]) = 1
    /\ pc = "toggle" /\ count = 0
    /\ Len(tl.waits) = 3
    /\ \A k \in DOMAIN tl.waits : tl.waits[k][1] = 0

====
